---- MODULE Spec2Model ----
(***************************************************************************)
(* Model of the credentials manager's data layer (src/app.js): the         *)
(* DataStore that owns the accounts, its order field, and the import /     *)
(* merge engine.                                                           *)
(*                                                                         *)
(* Strings are sequences of one-character strings, so that toLowerCase,    *)
(* toUpperCase and trim are computed character by character.  An array is  *)
(* a sequence.  Every candidate record handed to the store carries its own *)
(* freshly built extras array (FileParser.parse, ImportJSONModal.confirm   *)
(* and AccountModal.confirm all build one per record), so arrays are       *)
(* modelled by value.                                                      *)
(***************************************************************************)
EXTENDS Integers, Sequences, FiniteSets, TLC

VARIABLES
    accounts,   \* DataStore.data.accounts
    records,    \* number of candidate records given to importAccounts so far
    pre,        \* data.accounts as the last call found it
    op,         \* the last call: its name, arguments and return value
    tags,       \* DataStore.data.tags
    settings,   \* DataStore.data.settings
    timeout,    \* the timeouts of DataStore.autoSave that are pending
    requests,   \* the calls of autoSave since later ran, up to MaxBurst
    storage,    \* the item of localStorage that holds the data
    saved,      \* the last call of DataStore.save
    cache,      \* TOTP.cache: secret -> [code, timeWindow]
    clock,      \* the time window of Date.now()
    calls,      \* the calls of TOTP.generate that wait for their digest
    returned,   \* the call of TOTP.generate that returned in the last step
    done,       \* the secrets with a code from a call within this window
    begun,      \* the number of calls of TOTP.generate
    parserInput,    \* the arguments of the last call of the FileParser
    parserOutput,   \* what that call returned
    now,        \* Date.now(), in ticks of TickMs milliseconds
    timers,     \* the timeouts of setTimeout that are pending
    totpUpdateInterval, \* CredentialsApp.totpUpdateInterval
    app,        \* the life of the CredentialsApp
    fired,      \* the last run of the callback of startTOTPUpdates
    backup,     \* the file of the last JSON export
    uiNow,      \* the milliseconds the page has been open
    uiTimers,   \* the timeouts of the notification and of the dropdown
    notification,   \* NotificationManager.currentNotification
    displayed,  \* the last call of NotificationManager.show
    dropdown,   \* the QuickTagSelector that was opened last
    toggled     \* the last call of QuickTagSelector.toggleTag

vars == <<accounts, records, pre, op, tags, settings, timeout, requests,
          storage, saved,
          cache, clock, calls, returned, done, begun, parserInput, parserOutput,
          now, timers, totpUpdateInterval, app, fired, backup,
          uiNow, uiTimers, notification, displayed, dropdown, toggled>>

\* The notification, with the timeouts of the page.
toast == <<uiTimers, notification, displayed>>

\* The dropdown of the tags.
selector == <<dropdown, toggled>>

\* The notification, the dropdown of the tags and their clock.
ui == <<uiNow, toast, selector>>

\* The timer of the codes, but for the wall clock.
refresh == <<timers, totpUpdateInterval, app, fired>>

\* The store, its history and its saving.
store == <<accounts, records, pre, op, tags, settings, timeout, requests,
           storage, saved>>

\* What a call of the store from a handler of the page leaves alone, but
\* for the store.
notPage == <<cache, clock, calls, returned, done, begun, parserInput,
            parserOutput, now, refresh, backup, uiNow>>

\* What a handler that has nothing to do with the dropdown leaves alone.
notHandler == <<notPage, selector>>

\* What the store leaves alone.
notStore == <<notHandler, toast>>

\* What the operations on accounts and tags leave alone, but for the timer
\* of autoSave.
notData == <<settings, storage, saved, notStore>>

notAccounts == <<tags, notData>>

\* What the generator and the passing of time leave alone.
notTime == <<accounts, records, pre, op, tags, settings, timeout, requests,
            storage, saved, parserInput, parserOutput, backup, ui>>

\* What the generator leaves alone.
notTOTP == <<notTime, now, refresh>>

\* What the file parser leaves alone.
notParser == <<accounts, records, pre, op, tags, settings, timeout, requests,
              storage, saved, cache, clock, calls, returned, done, begun,
              now, refresh, backup, ui>>

(***************************************************************************)
(* Bounds of the model.                                                    *)
(***************************************************************************)
MaxAccounts == 3
MaxRecords == 3
MaxTags == 2
MaxTagged == 2
\* The capacity of the cache in the model; generate is begun MaxCalls
\* times and the clock reaches the window MaxWindow.
\* The accounts of the specification of saving.
MaxSaved == 1
\* The calls of autoSave that are counted between two saves.
MaxBurst == 2
MaxCacheSize == 2
\* The lines of a parsed file.
MaxLines == 2
\* The lines of a file whose delimiter is detected.
MaxDetectLines == 4
MaxCalls == 4
MaxWindow == 2
\* The ticks a callback of setTimeout runs after its timeout is due.
MaxLate == 1
\* The milliseconds after which no handler of the page is run any more.
MaxUiNow == 3000
\* The milliseconds after which the dropdown of the tags is left alone.
MaxSelectorNow == 100
\* The timeouts that are pending when the dropdown is used.
MaxTimers == 5

(***************************************************************************)
(* Strings.                                                                *)
(***************************************************************************)
LowerLetters ==
    <<"a", "b", "c", "d", "e", "f", "g", "h", "i", "j", "k", "l", "m",
      "n", "o", "p", "q", "r", "s", "t", "u", "v", "w", "x", "y", "z">>
UpperLetters ==
    <<"A", "B", "C", "D", "E", "F", "G", "H", "I", "J", "K", "L", "M",
      "N", "O", "P", "Q", "R", "S", "T", "U", "V", "W", "X", "Y", "Z">>

Digits == <<"0", "1", "2", "3", "4", "5", "6", "7", "8", "9">>

Space == " "

\* The white space String.prototype.trim removes.
Whitespace == {Space, "\t", "\n", "\r"}

Range(seq) == {seq[i] : i \in 1..Len(seq)}

toLowerChar(c) ==
    IF \E i \in 1..Len(UpperLetters) : UpperLetters[i] = c
    THEN LowerLetters[CHOOSE i \in 1..Len(UpperLetters) : UpperLetters[i] = c]
    ELSE c

toUpperChar(c) ==
    IF \E i \in 1..Len(LowerLetters) : LowerLetters[i] = c
    THEN UpperLetters[CHOOSE i \in 1..Len(LowerLetters) : LowerLetters[i] = c]
    ELSE c

toLowerCase(s) == [i \in 1..Len(s) |-> toLowerChar(s[i])]

toUpperCase(s) == [i \in 1..Len(s) |-> toUpperChar(s[i])]

RECURSIVE trimStart(_)
trimStart(s) ==
    IF s # <<>> /\ Head(s) \in Whitespace THEN trimStart(Tail(s)) ELSE s

RECURSIVE trimEnd(_)
trimEnd(s) ==
    IF s # <<>> /\ s[Len(s)] \in Whitespace
    THEN trimEnd(SubSeq(s, 1, Len(s) - 1))
    ELSE s

trim(s) == trimEnd(trimStart(s))

\* Utils.normalizeEmail: email.toLowerCase().trim()
normalizeEmail(email) == trim(toLowerCase(email))

\* Utils.normalizeTOTP: totp.toUpperCase().trim()
normalizeTOTP(totp) == trim(toUpperCase(totp))

\* JavaScript truthiness of a string: the empty string is falsy.
Truthy(s) == s # <<>>

\* Array.prototype.includes on an array of strings.
includes(arr, x) == \E i \in 1..Len(arr) : arr[i] = x

(***************************************************************************)
(* The store.                                                              *)
(***************************************************************************)
Ids == 1..(MaxAccounts + 1)

UsedIds(accs) == {accs[i].id : i \in 1..Len(accs)}

\* Utils.generateUUID: an id no account of the store carries.
generateUUID(accs) ==
    CHOOSE i \in 1..(Len(accs) + 1) :
        /\ i \notin UsedIds(accs)
        /\ \A j \in 1..(Len(accs) + 1) : j \notin UsedIds(accs) => i <= j

\* Array.prototype.findIndex by id; 0 stands for JavaScript's -1.
findIndex(accs, id) ==
    IF \E i \in 1..Len(accs) : accs[i].id = id
    THEN CHOOSE i \in 1..Len(accs) :
            /\ accs[i].id = id
            /\ \A j \in 1..(i - 1) : accs[j].id # id
    ELSE 0

\* addAccountTo that stores the email as it was given.
addAccountToRawEmail(accs, accountData) ==
    LET account == [id       |-> generateUUID(accs),
                    email    |-> accountData.email,
                    password |-> accountData.password,
                    totp     |-> IF Truthy(accountData.totp)
                                 THEN normalizeTOTP(accountData.totp)
                                 ELSE <<>>,
                    extras   |-> accountData.extras,
                    tags     |-> accountData.tags,
                    order    |-> Len(accs)]
    IN  Append(accs, account)

\* DataStore.addAccount, as a function of the accounts array.
addAccountTo(accs, accountData) ==
    LET account == [id       |-> generateUUID(accs),
                    email    |-> normalizeEmail(accountData.email),
                    password |-> accountData.password,
                    totp     |-> IF Truthy(accountData.totp)
                                 THEN normalizeTOTP(accountData.totp)
                                 ELSE <<>>,
                    extras   |-> accountData.extras,
                    tags     |-> accountData.tags,
                    order    |-> Len(accs)]
    IN  Append(accs, account)

\* Array.prototype.splice(index, 1)
splice(accs, index) ==
    SubSeq(accs, 1, index - 1) \o SubSeq(accs, index + 1, Len(accs))

\* DataStore.deleteAccount, as a function of the accounts array.
deleteAccountFrom(accs, id) ==
    LET index == findIndex(accs, id)
    IN  IF index = 0 THEN accs ELSE splice(accs, index)

\* shiftedOrder with the upper end of the moving-later range left out
\* (acc.order < newOrder).
shiftedOrderOpenRange(acc, accountId, oldOrder, newOrder) ==
    IF acc.id = accountId THEN newOrder
    ELSE IF oldOrder < newOrder
         THEN IF acc.order > oldOrder /\ acc.order < newOrder
              THEN acc.order - 1 ELSE acc.order
         ELSE IF acc.order >= newOrder /\ acc.order < oldOrder
              THEN acc.order + 1 ELSE acc.order

\* The new order of one account in the forEach of DataStore.reorderAccounts.
shiftedOrder(acc, accountId, oldOrder, newOrder) ==
    IF acc.id = accountId THEN newOrder
    ELSE IF oldOrder < newOrder
         THEN IF acc.order > oldOrder /\ acc.order <= newOrder
              THEN acc.order - 1 ELSE acc.order
         ELSE IF acc.order >= newOrder /\ acc.order < oldOrder
              THEN acc.order + 1 ELSE acc.order

\* reorderAccountsIn that exchanges the moved account with the account at
\* the new position.
reorderAccountsInExchange(accs, accountId, newOrder) ==
    LET index == findIndex(accs, accountId)
    IN  IF index = 0 THEN accs
        ELSE LET oldOrder == accs[index].order
             IN  [i \in 1..Len(accs) |->
                    [accs[i] EXCEPT
                        !.order = IF accs[i].id = accountId THEN newOrder
                                  ELSE IF accs[i].order = newOrder THEN oldOrder
                                  ELSE accs[i].order]]

\* DataStore.reorderAccounts, as a function of the accounts array.
reorderAccountsIn(accs, accountId, newOrder) ==
    LET index == findIndex(accs, accountId)
    IN  IF index = 0 THEN accs
        ELSE LET oldOrder == accs[index].order
             IN  [i \in 1..Len(accs) |->
                    [accs[i] EXCEPT
                        !.order = shiftedOrder(accs[i], accountId, oldOrder, newOrder)]]

\* Insertion of an account into an order-sorted array, after every account
\* whose order is not larger (Array.prototype.sort is stable).
RECURSIVE insertSorted(_, _)
insertSorted(sorted, acc) ==
    IF sorted = <<>> THEN <<acc>>
    ELSE IF sorted[Len(sorted)].order <= acc.order
         THEN Append(sorted, acc)
         ELSE Append(insertSorted(SubSeq(sorted, 1, Len(sorted) - 1), acc),
                     sorted[Len(sorted)])

RECURSIVE sortByOrder(_)
sortByOrder(accs) ==
    IF accs = <<>> THEN <<>>
    ELSE insertSorted(sortByOrder(SubSeq(accs, 1, Len(accs) - 1)), accs[Len(accs)])

\* DataStore.getAccountsSorted
getAccountsSorted(accs) == sortByOrder(accs)

(***************************************************************************)
(* The merge engine: DataStore.importAccounts.                             *)
(***************************************************************************)
\* The callback of accounts.find: same normalized email, same password.
isDuplicate(acc, newAcc) ==
    /\ normalizeEmail(acc.email) = normalizeEmail(newAcc.email)
    /\ acc.password = newAcc.password

\* Array.prototype.find, as the index of the first match; 0 when none.
findExisting(accs, newAcc) ==
    IF \E i \in 1..Len(accs) : isDuplicate(accs[i], newAcc)
    THEN CHOOSE i \in 1..Len(accs) :
            /\ isDuplicate(accs[i], newAcc)
            /\ \A j \in 1..(i - 1) : ~isDuplicate(accs[j], newAcc)
    ELSE 0

\* hasTOTP without the trim.
hasTOTPUntrimmed(totp) == Truthy(totp)

\* existing.totp && existing.totp.trim()
hasTOTP(totp) == Truthy(totp) /\ Truthy(trim(totp))

\* existing.totp === newAcc.totp
sameTOTP(existingTotp, newTotp) == existingTotp = newTotp

\* mergeExtras without the includes test.
RECURSIVE mergeExtrasNoDedup(_, _)
mergeExtrasNoDedup(m, newExtras) ==
    IF newExtras = <<>> THEN m
    ELSE mergeExtrasNoDedup([extras  |-> Append(m.extras, Head(newExtras)),
                             updated |-> TRUE], Tail(newExtras))

\* newAcc.extras.forEach(extra => { if (!existing.extras.includes(extra))
\*     { existing.extras.push(extra); updated = true; } })
RECURSIVE mergeExtras(_, _)
mergeExtras(m, newExtras) ==
    IF newExtras = <<>> THEN m
    ELSE LET extra == Head(newExtras)
         IN  IF ~includes(m.extras, extra)
             THEN mergeExtras([extras  |-> Append(m.extras, extra),
                               updated |-> TRUE], Tail(newExtras))
             ELSE mergeExtras(m, Tail(newExtras))

bump(stats, counter) == [stats EXCEPT ![counter] = @ + 1]

\* The branch "existingHasTOTP && !newHasTOTP" of importAccounts.
skipRecord(st) ==
    [accounts |-> st.accounts,
     stats    |-> bump(st.stats, "skipped"),
     outcome  |-> "skipped"]

\* adoptTOTP that counts the record as the merge branches do: updated only
\* when an extra was appended.
adoptTOTPCountedByExtras(st, idx, newAcc) ==
    LET existing == st.accounts[idx]
        m == mergeExtras([extras |-> existing.extras, updated |-> FALSE],
                         newAcc.extras)
    IN  [accounts |-> [st.accounts EXCEPT ![idx].totp = newAcc.totp,
                                          ![idx].extras = m.extras],
         stats    |-> bump(st.stats, IF m.updated THEN "updated" ELSE "skipped"),
         outcome  |-> IF m.updated THEN "updated" ELSE "skipped"]

\* The branch "!existingHasTOTP && newHasTOTP": the existing account takes
\* the candidate's secret as it is written in the candidate.
adoptTOTP(st, idx, newAcc) ==
    LET existing == st.accounts[idx]
        m == mergeExtras([extras |-> existing.extras, updated |-> FALSE],
                         newAcc.extras)
    IN  [accounts |-> [st.accounts EXCEPT ![idx].totp = newAcc.totp,
                                          ![idx].extras = m.extras],
         stats    |-> bump(st.stats, "updated"),
         outcome  |-> "updated"]

\* mergeRecord that overwrites the existing extras with the candidate's
\* instead of appending to them.
mergeRecordReplace(st, idx, newAcc) ==
    LET existing == st.accounts[idx]
    IN  IF newAcc.extras # existing.extras
        THEN [accounts |-> [st.accounts EXCEPT ![idx].extras = newAcc.extras],
              stats    |-> bump(st.stats, "updated"),
              outcome  |-> "updated"]
        ELSE [accounts |-> st.accounts,
              stats    |-> bump(st.stats, "skipped"),
              outcome  |-> "skipped"]

\* The branches that only merge extras: both secrets present and
\* existing.totp === newAcc.totp, or no secret on either side.
mergeRecord(st, idx, newAcc) ==
    LET existing == st.accounts[idx]
        m == mergeExtras([extras |-> existing.extras, updated |-> FALSE],
                         newAcc.extras)
    IN  IF m.updated
        THEN [accounts |-> [st.accounts EXCEPT ![idx].extras = m.extras],
              stats    |-> bump(st.stats, "updated"),
              outcome  |-> "updated"]
        ELSE [accounts |-> st.accounts,
              stats    |-> bump(st.stats, "skipped"),
              outcome  |-> "skipped"]

\* this.addAccount(newAcc); stats.added++
addRecord(st, newAcc) ==
    [accounts |-> addAccountTo(st.accounts, newAcc),
     stats    |-> bump(st.stats, "added"),
     outcome  |-> "added"]

\* One iteration of accounts.forEach in importAccounts.  st carries the
\* accounts array and the stats counters; outcome names the counter that
\* the iteration incremented.
importOne(st, newAcc) ==
    LET idx == findExisting(st.accounts, newAcc)
    IN  IF idx # 0
        THEN LET existingHasTOTP == hasTOTP(st.accounts[idx].totp)
                 newHasTOTP      == hasTOTP(newAcc.totp)
             IN  IF existingHasTOTP /\ ~newHasTOTP
                 THEN skipRecord(st)
                 ELSE IF ~existingHasTOTP /\ newHasTOTP
                 THEN adoptTOTP(st, idx, newAcc)
                 ELSE IF existingHasTOTP /\ newHasTOTP
                 THEN IF sameTOTP(st.accounts[idx].totp, newAcc.totp)
                      THEN mergeRecord(st, idx, newAcc)
                      ELSE addRecord(st, newAcc)
                 ELSE mergeRecord(st, idx, newAcc)
        ELSE addRecord(st, newAcc)

\* accounts.forEach(newAcc => ...): the run of importAccounts over a batch,
\* as the sequence of its iterations' results; element 1 is the state the
\* call starts in, element i + 1 the state after candidate i.
RECURSIVE importRun(_, _)
importRun(run, batch) ==
    IF batch = <<>> THEN run
    ELSE importRun(Append(run, importOne(run[Len(run)], Head(batch))), Tail(batch))

zeroStats == [added |-> 0, updated |-> 0, skipped |-> 0]

importAccountsRun(accs, batch) ==
    importRun(<<[accounts |-> accs, stats |-> zeroStats, outcome |-> "start"]>>, batch)

(***************************************************************************)
(* Validation and the file parser.                                         *)
(***************************************************************************)
\* String.prototype.startsWith
startsWith(s, prefix) ==
    Len(prefix) <= Len(s) /\ SubSeq(s, 1, Len(prefix)) = prefix

\* String.prototype.includes
strIncludes(s, sub) ==
    \E i \in 1..(Len(s) - Len(sub) + 1) : SubSeq(s, i, i + Len(sub) - 1) = sub

\* String.prototype.split with a non-empty separator: the pieces between
\* the occurrences of the separator, found from left to right.
RECURSIVE splitFrom(_, _, _)
splitFrom(s, delim, piece) ==
    IF s = <<>> THEN <<piece>>
    ELSE IF startsWith(s, delim)
         THEN <<piece>> \o splitFrom(SubSeq(s, Len(delim) + 1, Len(s)), delim, <<>>)
         ELSE splitFrom(Tail(s), delim, Append(piece, Head(s)))

split(s, delim) == splitFrom(s, delim, <<>>)

\* The character class [A-Z0-9] with the flag i.
isAlnum(c) == c \in Range(UpperLetters) \cup Range(LowerLetters) \cup Range(Digits)

TotpLength == 32

\* Utils.validateTOTP
validateTOTP(totp) ==
    Len(totp) = TotpLength /\ Len(totp) > 0 /\ \A i \in 1..Len(totp) : isAlnum(totp[i])

\* Utils.validateEmail
validateEmail(email) == strIncludes(email, <<"@">>) /\ strIncludes(email, <<".">>)

\* Array.prototype.filter(e => e) on an array of strings
RECURSIVE filterTruthy(_)
filterTruthy(arr) ==
    IF arr = <<>> THEN <<>>
    ELSE IF Truthy(Head(arr))
         THEN <<Head(arr)>> \o filterTruthy(Tail(arr))
         ELSE filterTruthy(Tail(arr))

NotEnoughFields == "Not enough fields (need at least email and password)"
InvalidTOTP == "Invalid TOTP (must be 32 alphanumeric chars or empty)"
InvalidEmail == "Invalid email"

\* The body of the for loop of FileParser.parse for lines[i]: what the
\* line adds to accounts or to errors ("skip" when it adds nothing).
parseLine(rawLine, lineNumber, delimiter, fieldMapping) ==
    LET line == trim(rawLine)
    IN  IF ~Truthy(line) \/ startsWith(line, <<"#">>)
        THEN [kind |-> "skip"]
        ELSE LET parts    == [k \in 1..Len(split(line, delimiter)) |->
                                 trim(split(line, delimiter)[k])]
                 email    == parts[1]
                 password == parts[2]
                 totp     == IF fieldMapping.hasTOTP /\ Len(parts) >= 3
                             THEN parts[3] ELSE <<>>
                 extras   == IF fieldMapping.hasTOTP
                             THEN SubSeq(parts, 4, Len(parts))
                             ELSE SubSeq(parts, 3, Len(parts))
                 failure(message) ==
                     [kind |-> "error",
                      error |-> [line |-> lineNumber, error |-> message,
                                 content |-> line]]
             IN  IF Len(parts) < 2 THEN failure(NotEnoughFields)
                 ELSE IF fieldMapping.hasTOTP /\ Truthy(totp) /\ ~validateTOTP(totp)
                      THEN failure(InvalidTOTP)
                 ELSE IF ~validateEmail(email) THEN failure(InvalidEmail)
                 ELSE [kind |-> "account",
                       account |-> [email |-> email, password |-> password,
                                    totp |-> totp,
                                    extras |-> filterTruthy(extras)]]

\* A loop that ends at the first line in error.
RECURSIVE parseLinesUntilError(_, _, _, _, _)
parseLinesUntilError(lines, i, delimiter, fieldMapping, result) ==
    IF i > Len(lines) THEN result
    ELSE LET r == parseLine(lines[i], i, delimiter, fieldMapping)
         IN  IF r.kind = "error"
             THEN [result EXCEPT !.errors = Append(@, r.error)]
             ELSE parseLinesUntilError(lines, i + 1, delimiter, fieldMapping,
                     IF r.kind = "account"
                     THEN [result EXCEPT !.accounts = Append(@, r.account)]
                     ELSE result)

\* The for loop of FileParser.parse from line i on.
RECURSIVE parseLines(_, _, _, _, _)
parseLines(lines, i, delimiter, fieldMapping, result) ==
    IF i > Len(lines) THEN result
    ELSE LET r == parseLine(lines[i], i, delimiter, fieldMapping)
         IN  parseLines(lines, i + 1, delimiter, fieldMapping,
                IF r.kind = "account"
                THEN [result EXCEPT !.accounts = Append(@, r.account)]
                ELSE IF r.kind = "error"
                THEN [result EXCEPT !.errors = Append(@, r.error)]
                ELSE result)

\* FileParser.parse(content, delimiter, fieldMapping)
parse(content, delimiter, fieldMapping) ==
    parseLines(split(content, <<"\n">>), 1, delimiter, fieldMapping,
               [accounts |-> <<>>, errors |-> <<>>])

\* A call of FileParser.parse(content, delimiter, fieldMapping)
parseCall(content, delimiter, withTOTP) ==
    /\ parserInput' = [fn |-> "parse", content |-> content, delimiter |-> delimiter,
                 hasTOTP |-> withTOTP]
    /\ parserOutput' = parse(content, delimiter, [hasTOTP |-> withTOTP])
    /\ UNCHANGED notParser

\* Array.prototype.filter(l => l.trim() && !l.startsWith('#'))
RECURSIVE filterLines(_)
filterLines(lines) ==
    IF lines = <<>> THEN <<>>
    ELSE IF Truthy(trim(Head(lines))) /\ ~startsWith(Head(lines), <<"#">>)
         THEN <<Head(lines)>> \o filterLines(Tail(lines))
         ELSE filterLines(Tail(lines))

\* Array.prototype.slice(0, n)
slice(arr, n) == SubSeq(arr, 1, IF Len(arr) < n THEN Len(arr) ELSE n)

\* The candidates of detectDelimiter, in the order of its list.
delimiters ==
    << <<"|">>, <<":">>, <<";">>, <<";", ";", ";">>, <<";", ";">>, <<"\t">>, <<",">> >>

PreviewLines == 3

\* The score of a candidate: the lines that it splits into three parts or
\* more.
scoreOf(lines, delim) ==
    Cardinality({i \in 1..Len(lines) : Len(split(lines[i], delim)) >= 3})

\* Array.prototype.sort((a, b) => b[1] - a[1]) on the entries of scores: a
\* stable sort by falling score, as an insertion from the last entry on.
RECURSIVE sortEntries(_)
sortEntries(entries) ==
    IF entries = <<>> THEN <<>>
    ELSE LET first  == Head(entries)
             sorted == sortEntries(Tail(entries))
             ahead  == {k \in 1..Len(sorted) : sorted[k][2] > first[2]}
         IN  SubSeq(sorted, 1, Cardinality(ahead))
                \o <<first>>
                \o SubSeq(sorted, Cardinality(ahead) + 1, Len(sorted))

\* What detectDelimiter returns when it detects nothing.
nullDelimiter == <<"null">>

\* FileParser.detectDelimiter(content)
detectDelimiter(content) ==
    LET lines  == slice(filterLines(split(content, <<"\n">>)), PreviewLines)
        scores == [k \in 1..Len(delimiters) |->
                      <<delimiters[k], scoreOf(lines, delimiters[k])>>]
        best   == sortEntries(scores)[1]
    IN  IF Len(lines) = 0 THEN nullDelimiter
        ELSE IF best[2] > 0 THEN best[1] ELSE nullDelimiter

\* A call of FileParser.detectDelimiter(content)
detectCall(content) ==
    /\ parserInput' = [fn |-> "detectDelimiter", content |-> content,
                       delimiter |-> <<>>, hasTOTP |-> FALSE]
    /\ parserOutput' = detectDelimiter(content)
    /\ UNCHANGED notParser

(***************************************************************************)
(* Inputs.                                                                 *)
(***************************************************************************)
a == <<"a">>
p == <<"p">>
q == <<"q">>
e == <<"e">>
f == <<"f">>
X == <<"X">>
Y == <<"Y">>

candidate(email, password, totp, extras) ==
    [email |-> email, password |-> password, totp |-> totp,
     extras |-> extras, tags |-> <<>>]

\* The record given to addAccount and importAccounts by the specifications
\* of the order field.
StoreCandidates ==
    {candidate(a, p, X, <<>>)}

\* Records given to addAccount by the specification of reorderAccounts.
ReorderCandidates ==
    {candidate(a, p, X, <<>>), candidate(a, q, <<>>, <<e>>)}

\* Records given to importAccounts by the merge specification: every
\* pairing of a missing or present secret with two extras lists, an
\* upper-case email with a lower-case secret, a secret with surrounding
\* white space, a blank secret, and another password.
MergeCandidates ==
    {candidate(a, p, t, x) : t \in {<<>>, X, Y}, x \in {<<e>>, <<f, f>>}}
    \cup {candidate(<<"A">>, p, <<"x">>, <<>>),
          candidate(a, p, <<"X", " ">>, <<e>>),
          candidate(a, p, <<" ">>, <<f, f>>),
          candidate(a, q, X, <<e>>)}

RECURSIVE SeqsUpTo(_, _)
SeqsUpTo(S, n) ==
    IF n = 0 THEN {<<>>}
    ELSE LET shorter == SeqsUpTo(S, n - 1)
         IN  shorter \cup {Append(s, x) : s \in shorter, x \in S}

\* The batches that can still be imported: importAccounts is given at most
\* MaxRecords candidate records in a behaviour.
Batches(S) == SeqsUpTo(S, MaxRecords - records) \ {<<>>}

(***************************************************************************)
(* Operations of the store.                                                *)
(***************************************************************************)
noInput == [fn |-> "none", content |-> <<>>, delimiter |-> <<>>, hasTOTP |-> FALSE]

\* The settings of a new DataStore.
defaultSettings == [theme |-> "dark", compactMode |-> FALSE, defaultDelimiter |-> "|"]

\* DataStore.data
data(accs, tgs, stg) == [accounts |-> accs, tags |-> tgs, settings |-> stg]

\* localStorage without the item.
null == [accounts |-> <<>>, tags |-> <<>>, settings |-> [theme |-> "none"]]

noSave ==
    [called |-> FALSE, written |-> FALSE, event |-> "none",
     before |-> null, after |-> null, requests |-> 0]

\* A debounced function that sets a timeout at every call and clears none.
debouncedNoClear(pending) == pending + 1

\* executedFunction of Utils.debounce on the number of pending timeouts:
\* clearTimeout(timeout); timeout = setTimeout(later, wait)
debounced(pending) == (IF pending > 0 THEN pending - 1 ELSE 0) + 1

RECURSIVE debouncedTimes(_, _)
debouncedTimes(pending, n) ==
    IF n = 0 THEN pending ELSE debouncedTimes(debounced(pending), n - 1)

\* n calls of DataStore.autoSave(), the debounced save.
autoSaves(n) ==
    /\ timeout' = debouncedTimes(timeout, n)
    /\ requests' = IF requests + n < MaxBurst THEN requests + n ELSE MaxBurst

\* DataStore.autoSave()
autoSave == autoSaves(1)

noReturn ==
    [call |-> [secret |-> <<>>, currentWindow |-> 0, seen |-> FALSE],
     result |-> [text |-> "none", of |-> [key |-> <<>>, message |-> 0]],
     hmac |-> FALSE, at |-> 0, before |-> <<>>,
     cleaned |-> FALSE, after |-> <<>>]

\* A call that was given no backup.
noBackup == [accounts |-> <<>>, tags |-> <<>>]

\* totpUpdateInterval without a timeout.
noTimer == 0

\* No run of the refresh of the codes yet.
noFiring ==
    [by |-> "none", count |-> 0, at |-> 0, due |-> 0, window |-> 0,
     visible |-> {}, before |-> <<>>, cache |-> <<>>, calls |-> <<>>]

\* NotificationManager's constructor: currentNotification is null.  el
\* tells the elements apart: it is the time document.createElement made
\* the element, and hideTimer is the property show puts on the element.
noNotification ==
    [current |-> FALSE, el |-> 0, textContent |-> <<>>, show |-> FALSE,
     hideTimer |-> 0]

noShow == [message |-> <<>>, duration |-> 0, at |-> 0, called |-> FALSE]

\* No QuickTagSelector has been made; in a selector, element tells whether
\* this.dropdown holds an element, items are the tags the dropdown lists,
\* active those it marks as the account's, and listening tells whether
\* handleOutsideClick listens to the clicks on the document.
noSelector ==
    [accountId |-> 0, element |-> FALSE, show |-> FALSE, items |-> <<>>,
     active |-> {}, listening |-> FALSE]

noToggle == [tagId |-> 0, accountId |-> 0, called |-> FALSE]

noCall ==
    [name |-> "none", id |-> 0, newOrder |-> 0, data |-> <<>>, batch |-> <<>>,
     ret |-> FALSE, stats |-> zeroStats, run |-> <<>>, tagId |-> 0,
     json |-> noBackup, preTags |-> <<>>, mapping |-> <<>>,
     target |-> 0, below |-> FALSE]

Init ==
    /\ accounts = <<>>
    /\ records = 0
    /\ pre = <<>>
    /\ op = noCall
    /\ tags = <<>>
    /\ settings = defaultSettings
    /\ timeout = 0
    /\ requests = 0
    /\ storage = null
    /\ saved = noSave
    /\ cache = <<>>
    /\ clock = 0
    /\ calls = <<>>
    /\ returned = noReturn
    /\ done = {}
    /\ begun = 0
    /\ parserInput = noInput
    /\ parserOutput = <<>>
    /\ now = 0
    /\ timers = {}
    /\ totpUpdateInterval = noTimer
    /\ app = "loading"
    /\ fired = noFiring
    /\ backup = noBackup
    /\ uiNow = 0
    /\ uiTimers = {}
    /\ notification = noNotification
    /\ displayed = noShow
    /\ dropdown = noSelector
    /\ toggled = noToggle

(***************************************************************************)
(* The notification: NotificationManager.                                  *)
(***************************************************************************)
\* setTimeout(callback, delay) at the time ms: a timeout with a new id.
setTimeout(pending, id, ms, delay) == pending \cup {[id |-> id, due |-> ms + delay]}

\* clearTimeout(id)
clearTimeout(pending, id) == {t \in pending : t.id # id}

\* A message: its fixed text and the values the template puts into it.
notice(text, args) == [text |-> text, args |-> args]

\* The id setTimeout returns: the least one that no pending timeout has and
\* that is not held.
newTimerId(pending, held) ==
    LET used == {t.id : t \in pending} \cup held
    IN  CHOOSE i \in 1..(Cardinality(used) + 1) :
            /\ i \notin used
            /\ \A j \in 1..(i - 1) : j \in used

\* setTimeout(fn, delay) at the time ms; el is the element the callback
\* holds, 0 when it holds none.
setUiTimeout(pending, held, fn, el, ms, delay) ==
    pending \cup {[id |-> newTimerId(pending, held), fn |-> fn, el |-> el,
                   due |-> ms + delay, delay |-> delay]}

\* The duration of show(message) without a duration.
DefaultDuration == 1500

\* NotificationManager.show(message, duration) at the time ms, on the
\* notification and the pending timeouts of u.
showIn(u, ms, msg, duration) ==
    IF u.notification.current
    THEN LET cleared == clearTimeout(u.timers, u.notification.hideTimer)
             hideTimer == newTimerId(cleared, {})
         IN  [notification |-> [u.notification EXCEPT !.textContent = msg,
                                                      !.hideTimer = hideTimer],
              timers |-> setUiTimeout(cleared, {}, "hide", 0, ms, duration)]
    ELSE LET animated == setUiTimeout(u.timers, {}, "notificationShow", ms, ms, 50)
             hideTimer == newTimerId(animated, {})
         IN  [notification |-> [current |-> TRUE, el |-> ms, textContent |-> msg,
                                show |-> FALSE, hideTimer |-> hideTimer],
              timers |-> setUiTimeout(animated, {}, "hide", 0, ms, duration)]

\* The calls of show a handler makes, one after the other.
RECURSIVE showAll(_, _, _)
showAll(u, ms, shown) ==
    IF shown = <<>> THEN u
    ELSE showAll(showIn(u, ms, Head(shown).message, Head(shown).duration), ms,
                 Tail(shown))

shows(shown) ==
    LET u == showAll([notification |-> notification, timers |-> uiTimers],
                     uiNow, shown)
        last == shown[Len(shown)]
    IN  /\ notification' = u.notification
        /\ uiTimers' = u.timers
        /\ displayed' = [message |-> last.message, duration |-> last.duration,
                         at |-> uiNow, called |-> TRUE]

\* notificationManager.show(message, duration) in a handler.
show(msg, duration) == shows(<<[message |-> msg, duration |-> duration]>>)

\* NotificationManager.hide() at the time ms.
hideIn(u, ms) ==
    IF ~u.notification.current THEN u
    ELSE [notification |-> [u.notification EXCEPT !.show = FALSE],
          timers |-> setUiTimeout(u.timers, {u.notification.hideTimer},
                                  "notificationRemove", 0, ms, 200)]

\* The timeouts that run next: those that are due first and, among them,
\* those that were set first, that is with the longest delay.
NextTimers ==
    {t \in uiTimers :
        \A o \in uiTimers : t.due < o.due \/ (t.due = o.due /\ t.delay >= o.delay)}

\* The callback of setTimeout in show that starts the animation:
\* notification.classList.add('show') on the element show made.
notificationShow(t) ==
    /\ t \in NextTimers
    /\ t.due <= uiNow
    /\ t.fn = "notificationShow"
    /\ uiTimers' = uiTimers \ {t}
    /\ notification' = IF notification.current /\ notification.el = t.el
                       THEN [notification EXCEPT !.show = TRUE]
                       ELSE notification
    /\ UNCHANGED <<store, notHandler, displayed>>

\* The callback () => this.hide() of the hide timer.
hideTimerFires(t) ==
    LET u == hideIn([notification |-> notification, timers |-> uiTimers \ {t}],
                    uiNow)
    IN  /\ t \in NextTimers
        /\ t.due <= uiNow
        /\ t.fn = "hide"
        /\ notification' = u.notification
        /\ uiTimers' = u.timers
        /\ UNCHANGED <<store, notHandler, displayed>>

\* The callback of setTimeout in hide: the element leaves the body and
\* currentNotification becomes null.
notificationRemove(t) ==
    /\ t \in NextTimers
    /\ t.due <= uiNow
    /\ t.fn = "notificationRemove"
    /\ uiTimers' = uiTimers \ {t}
    /\ notification' = noNotification
    /\ UNCHANGED <<store, notHandler, displayed>>

\* Time passes until the next timeout is due.
elapse ==
    /\ uiTimers # {}
    /\ \A t \in uiTimers : t.due > uiNow
    /\ uiNow' = CHOOSE d \in {t.due : t \in uiTimers} : \A t \in uiTimers : d <= t.due
    /\ UNCHANGED <<store, cache, clock, calls, returned, done, begun,
                   parserInput, parserOutput, now, refresh, backup, toast,
                   selector>>

\* DataStore.addAccount(accountData)
addAccountCall(accountData) ==
    /\ Len(accounts) < MaxAccounts
    /\ accounts' = addAccountTo(accounts, accountData)
    /\ pre' = accounts
    /\ op' = [noCall EXCEPT !.name = "addAccount", !.data = accountData,
                            !.id = generateUUID(accounts), !.ret = TRUE]
    /\ autoSave
    /\ UNCHANGED <<records, tags, settings, storage, saved, notPage>>

\* DataStore.addAccount called on its own: no notification is shown.
addAccount(accountData) == addAccountCall(accountData) /\ UNCHANGED <<toast, selector>>

\* DataStore.deleteAccount(id)
deleteAccount(id) ==
    /\ accounts' = deleteAccountFrom(accounts, id)
    /\ pre' = accounts
    /\ op' = [noCall EXCEPT !.name = "deleteAccount", !.id = id,
                            !.ret = (findIndex(accounts, id) # 0)]
    /\ IF findIndex(accounts, id) # 0 THEN autoSave ELSE UNCHANGED <<timeout, requests>>
    /\ UNCHANGED <<records, notAccounts>>

\* DataStore.reorderAccounts(accountId, newOrder)
reorderAccounts(accountId, newOrder) ==
    /\ accounts' = reorderAccountsIn(accounts, accountId, newOrder)
    /\ pre' = accounts
    /\ op' = [noCall EXCEPT !.name = "reorderAccounts", !.id = accountId,
                            !.newOrder = newOrder,
                            !.ret = (findIndex(accounts, accountId) # 0)]
    /\ IF findIndex(accounts, accountId) # 0 THEN autoSave ELSE UNCHANGED <<timeout, requests>>
    /\ UNCHANGED <<records, notAccounts>>

\* The drop handler of the card of accountId, for the dragged card
\* draggedAccountId dropped below the midpoint of the card or above it.
drop(draggedAccountId, accountId, below) ==
    LET draggedAccount == findIndex(accounts, draggedAccountId)
        targetAccount  == findIndex(accounts, accountId)
        newOrder == IF below THEN accounts[targetAccount].order + 1
                    ELSE accounts[targetAccount].order
    IN  /\ draggedAccountId # accountId
        /\ draggedAccount # 0
        /\ targetAccount # 0
        /\ accounts' = reorderAccountsIn(accounts, draggedAccountId, newOrder)
        /\ pre' = accounts
        /\ op' = [noCall EXCEPT !.name = "reorderAccounts",
                                !.id = draggedAccountId,
                                !.newOrder = newOrder, !.ret = TRUE,
                                !.target = accountId, !.below = below]
        /\ autoSave
        /\ UNCHANGED <<records, notAccounts>>

\* DataStore.exportAccounts({format: 'json'}), as the data JSON.parse reads
\* from the text: strings, numbers and arrays are written as they are.
exportAccounts(accs, tgs) == [accounts |-> accs, tags |-> tgs]

\* ExportModal.confirm() with the scope of all accounts and the format
\* JSON: the backup is written to a file.
exportJSON ==
    /\ IF Len(accounts) = 0
       THEN /\ show(notice("No accounts to export", <<>>), DefaultDuration)
            /\ UNCHANGED backup
       ELSE /\ backup' = exportAccounts(accounts, tags)
            /\ show(notice("Exported accounts", <<Len(accounts)>>), DefaultDuration)
    /\ UNCHANGED <<store, cache, clock, calls, returned, done, begun,
                   parserInput, parserOutput, now, refresh, uiNow, dropdown,
                   toggled>>

\* DataStore.importAccounts(accounts)
importAccountsCall(batch) ==
    LET run   == importAccountsRun(accounts, batch)
        final == run[Len(run)]
    IN  /\ records + Len(batch) <= MaxRecords
        /\ Len(final.accounts) <= MaxAccounts
        /\ accounts' = final.accounts
        /\ records' = records + Len(batch)
        /\ pre' = accounts
        /\ op' = [noCall EXCEPT !.name = "importAccounts", !.batch = batch,
                                !.ret = TRUE, !.stats = final.stats, !.run = run]
        /\ autoSaves(final.stats.added + 1)
        /\ UNCHANGED <<tags, settings, storage, saved, notPage>>

\* DataStore.importAccounts called on its own: no notification is shown.
importAccounts(batch) == importAccountsCall(batch) /\ UNCHANGED <<toast, selector>>

\* DataStore.updateAccount(id, updates) with the updates of the account
\* form: email, password, totp and extras.
updateAccountCall(id, updates) ==
    LET index == findIndex(accounts, id)
    IN  /\ IF index = 0
           THEN UNCHANGED accounts
           ELSE accounts' =
                  [accounts EXCEPT ![index] =
                      [@ EXCEPT !.email    = IF Truthy(updates.email)
                                             THEN normalizeEmail(updates.email)
                                             ELSE updates.email,
                                !.password = updates.password,
                                !.totp     = IF Truthy(updates.totp)
                                             THEN normalizeTOTP(updates.totp)
                                             ELSE <<>>,
                                !.extras   = updates.extras]]
        /\ pre' = accounts
        /\ op' = [noCall EXCEPT !.name = "updateAccount", !.id = id,
                                !.data = updates, !.ret = (index # 0)]
        /\ IF index # 0 THEN autoSave ELSE UNCHANGED <<timeout, requests>>
        /\ UNCHANGED <<records, tags, settings, storage, saved, notPage>>

\* DataStore.updateAccount called on its own: no notification is shown.
updateAccount(id, updates) ==
    updateAccountCall(id, updates) /\ UNCHANGED <<toast, selector>>

\* The identifier of AccountModal when it adds an account (accountId null).
NoAccount == 0

\* AccountModal.confirm() on the form fields of the modal opened for
\* accountId.
accountModalConfirm(accountId, emailField, passwordField, totpField, extrasField) ==
    LET email     == trim(emailField)
        password  == trim(passwordField)
        totp      == trim(totpField)
        extrasStr == trim(extrasField)
        pieces    == split(extrasStr, <<",">>)
        extras    == IF Truthy(extrasStr)
                     THEN filterTruthy([k \in 1..Len(pieces) |-> trim(pieces[k])])
                     ELSE <<>>
        accountData == [email |-> email, password |-> password, totp |-> totp,
                        extras |-> extras, tags |-> <<>>]
    IN  IF ~validateEmail(email)
        THEN /\ show(notice("Invalid email format", <<>>), DefaultDuration)
             /\ UNCHANGED <<store, notHandler>>
        ELSE IF Truthy(totp) /\ ~validateTOTP(totp)
        THEN /\ show(notice("TOTP must be exactly 32 alphanumeric characters (or leave empty)",
                            <<>>), DefaultDuration)
             /\ UNCHANGED <<store, notHandler>>
        ELSE IF accountId # NoAccount
        THEN /\ updateAccountCall(accountId, accountData)
             /\ show(notice("Account updated", <<>>), DefaultDuration)
             /\ UNCHANGED selector
        ELSE /\ addAccountCall(accountData)
             /\ show(notice("Account added", <<>>), DefaultDuration)
             /\ UNCHANGED selector

\* A parsed record as addAccount reads it: accountData.tags || [] of a
\* record without tags is the empty array.
untagged(acc) ==
    [email |-> acc.email, password |-> acc.password, totp |-> acc.totp,
     extras |-> acc.extras, tags |-> <<>>]

\* ImportModal.confirm() on the text of the chosen file.
importModalConfirm(text, delimiter, withTOTP) ==
    LET result == parse(text, delimiter, [hasTOTP |-> withTOTP])
        found == IF Len(result.errors) > 0
                 THEN <<[message  |-> notice("Found errors. First error:",
                                             <<Len(result.errors)>>),
                         duration |-> 3000]>>
                 ELSE <<>>
        batch == [k \in 1..Len(result.accounts) |-> untagged(result.accounts[k])]
    IN  IF Len(result.accounts) = 0
        THEN /\ shows(Append(found,
                             [message  |-> notice("No valid accounts found", <<>>),
                              duration |-> DefaultDuration]))
             /\ UNCHANGED <<store, notHandler>>
        ELSE /\ importAccountsCall(batch)
             /\ shows(Append(found,
                             [message  |-> notice("Imported: new, updated, skipped",
                                                  <<op'.stats.added,
                                                    op'.stats.updated,
                                                    op'.stats.skipped>>),
                              duration |-> DefaultDuration]))
             /\ UNCHANGED selector

(***************************************************************************)
(* Tags.                                                                   *)
(***************************************************************************)
TagIds == 1..(MaxTags + 1)

w == <<"w">>

TagNames == {w}

TagColors == {"#6f00ff"}

\* The tag ids some account refers to.
ReferencedTagIds(accs) ==
    UNION {{accs[i].tags[k] : k \in 1..Len(accs[i].tags)} : i \in 1..Len(accs)}

TagIdsOf(tgs) == {tgs[i].id : i \in 1..Len(tgs)}

\* Utils.generateUUID for a tag: an id that no tag carries and no account
\* refers to.
FreshTagIds(tgs, accs) == TagIds \ (TagIdsOf(tgs) \cup ReferencedTagIds(accs))

generateTagUUID(tgs, accs) ==
    CHOOSE i \in FreshTagIds(tgs, accs) : \A j \in FreshTagIds(tgs, accs) : i <= j

\* Array.prototype.filter(tagId => tagId !== id)
RECURSIVE withoutTag(_, _)
withoutTag(tagIds, id) ==
    IF tagIds = <<>> THEN <<>>
    ELSE IF Head(tagIds) = id
         THEN withoutTag(Tail(tagIds), id)
         ELSE <<Head(tagIds)>> \o withoutTag(Tail(tagIds), id)

findTagIndex(tgs, id) ==
    IF \E i \in 1..Len(tgs) : tgs[i].id = id
    THEN CHOOSE i \in 1..Len(tgs) :
            /\ tgs[i].id = id
            /\ \A j \in 1..(i - 1) : tgs[j].id # id
    ELSE 0

\* DataStore.createTag(name, color)
createTag(name, color) ==
    /\ Len(tags) < MaxTags
    /\ FreshTagIds(tags, accounts) # {}
    /\ tags' = Append(tags, [id    |-> generateTagUUID(tags, accounts),
                             name  |-> trim(name),
                             color |-> color])
    /\ pre' = accounts
    /\ op' = [noCall EXCEPT !.name = "createTag",
                            !.tagId = generateTagUUID(tags, accounts),
                            !.ret = TRUE]
    /\ autoSave
    /\ UNCHANGED <<accounts, records, notData>>

\* DataStore.deleteTag(id)
deleteTag(id) ==
    LET index == findTagIndex(tags, id)
    IN  /\ IF index = 0
           THEN UNCHANGED <<accounts, tags>>
           ELSE /\ accounts' = [i \in 1..Len(accounts) |->
                                  [accounts[i] EXCEPT !.tags = withoutTag(@, id)]]
                /\ tags' = SubSeq(tags, 1, index - 1)
                               \o SubSeq(tags, index + 1, Len(tags))
        /\ pre' = accounts
        /\ op' = [noCall EXCEPT !.name = "deleteTag", !.tagId = id,
                                !.ret = (index # 0)]
        /\ IF index # 0 THEN autoSave ELSE UNCHANGED <<timeout, requests>>
        /\ UNCHANGED <<records, notData>>

\* DataStore.addTagToAccount(accountId, tagId)
addTagToAccountCall(accountId, tagId) ==
    LET index == findIndex(accounts, accountId)
    IN  /\ IF index # 0 /\ ~includes(accounts[index].tags, tagId)
           THEN accounts' = [accounts EXCEPT ![index].tags = Append(@, tagId)]
           ELSE UNCHANGED accounts
        /\ pre' = accounts
        /\ op' = [noCall EXCEPT !.name = "addTagToAccount", !.id = accountId,
                                !.tagId = tagId, !.ret = (index # 0)]
        /\ IF index # 0 /\ ~includes(accounts[index].tags, tagId)
           THEN autoSave ELSE UNCHANGED <<timeout, requests>>
        /\ UNCHANGED <<records, tags, settings, storage, saved, notPage>>

\* DataStore.addTagToAccount called on its own: no notification is shown.
addTagToAccount(accountId, tagId) ==
    addTagToAccountCall(accountId, tagId) /\ UNCHANGED <<toast, selector>>

\* DataStore.removeTagFromAccount(accountId, tagId)
removeTagFromAccountCall(accountId, tagId) ==
    LET index == findIndex(accounts, accountId)
    IN  /\ IF index # 0
           THEN accounts' = [accounts EXCEPT ![index].tags = withoutTag(@, tagId)]
           ELSE UNCHANGED accounts
        /\ pre' = accounts
        /\ op' = [noCall EXCEPT !.name = "removeTagFromAccount", !.id = accountId,
                                !.tagId = tagId, !.ret = (index # 0)]
        /\ IF index # 0 THEN autoSave ELSE UNCHANGED <<timeout, requests>>
        /\ UNCHANGED <<records, tags, settings, storage, saved, notPage>>

\* DataStore.removeTagFromAccount called on its own: no notification is shown.
removeTagFromAccount(accountId, tagId) ==
    removeTagFromAccountCall(accountId, tagId) /\ UNCHANGED <<toast, selector>>

(***************************************************************************)
(* The dropdown of the tags: QuickTagSelector.                             *)
(***************************************************************************)
\* QuickTagSelector.hide() at the time ms, on the selector and the pending
\* timeouts of u; held are the ids of timeouts that are kept somewhere.
selectorHideIn(u, held, ms) ==
    IF ~u.dropdown.element THEN u
    ELSE [dropdown |-> [u.dropdown EXCEPT !.show = FALSE, !.listening = FALSE],
          timers   |-> setUiTimeout(u.timers, held, "dropdownRemove", 0, ms, 200)]

\* QuickTagSelector.show() at the time ms, with the accounts and the tags
\* of the store.
selectorShowIn(u, held, ms, accs, tgs) ==
    LET account == findIndex(accs, u.dropdown.accountId)
        animated == setUiTimeout(u.timers, held, "dropdownShow", 0, ms, 10)
    IN  IF u.dropdown.element THEN selectorHideIn(u, held, ms)
        ELSE IF account = 0 THEN u
        ELSE [dropdown |->
                [u.dropdown EXCEPT
                    !.element = TRUE,
                    !.show = FALSE,
                    !.items = [k \in 1..Len(tgs) |-> tgs[k].id],
                    !.active = {tgs[k].id : k \in {j \in 1..Len(tgs) :
                                    includes(accs[account].tags, tgs[j].id)}}],
              timers |-> setUiTimeout(animated, held, "listen", 0, ms, 100)]

\* The timeouts of the dropdown.
SelectorTimers ==
    {t \in uiTimers : t.fn \in {"dropdownShow", "listen", "dropdownRemove"}}

\* The click on the tag button of the card of accountId: a new
\* QuickTagSelector is made and shown.  One selector is followed at a time:
\* the button is clicked when the selector before is closed and all its
\* timeouts have run.
quickTag(accountId) ==
    LET u == selectorShowIn([dropdown |-> [noSelector EXCEPT !.accountId = accountId],
                             timers   |-> uiTimers],
                            {notification.hideTimer}, uiNow, accounts, tags)
    IN  /\ findIndex(accounts, accountId) # 0
        /\ ~dropdown.element
        /\ SelectorTimers = {}
        /\ dropdown' = u.dropdown
        /\ uiTimers' = u.timers
        /\ toggled' = noToggle
        /\ UNCHANGED <<store, notPage, notification, displayed>>

\* The click on the item of tagId in the dropdown: toggleTag(tagId).
toggleTag(tagId) ==
    LET account == findIndex(accounts, dropdown.accountId)
        hasTag  == includes(accounts[account].tags, tagId)
        shown   == showIn([notification |-> notification, timers |-> uiTimers],
                          uiNow,
                          notice(IF hasTag THEN "Tag removed" ELSE "Tag added", <<>>),
                          DefaultDuration)
        held    == {shown.notification.hideTimer}
        hidden  == selectorHideIn([dropdown |-> dropdown, timers |-> shown.timers],
                                  held, uiNow)
        u       == selectorShowIn(hidden, held, uiNow, accounts', tags)
    IN  /\ dropdown.element
        /\ tagId \in Range(dropdown.items)
        /\ account # 0
        /\ IF hasTag
           THEN removeTagFromAccountCall(dropdown.accountId, tagId)
           ELSE addTagToAccountCall(dropdown.accountId, tagId)
        /\ notification' = shown.notification
        /\ displayed' = [message  |-> shown.notification.textContent,
                         duration |-> DefaultDuration, at |-> uiNow,
                         called |-> TRUE]
        /\ dropdown' = u.dropdown
        /\ uiTimers' = u.timers
        /\ toggled' = [tagId |-> tagId, accountId |-> dropdown.accountId,
                       called |-> TRUE]

\* A click outside the dropdown and its button: handleOutsideClick.
outsideClick ==
    LET u == selectorHideIn([dropdown |-> dropdown, timers |-> uiTimers],
                            {notification.hideTimer}, uiNow)
    IN  /\ dropdown.listening
        /\ dropdown.element
        /\ dropdown' = u.dropdown
        /\ uiTimers' = u.timers
        /\ toggled' = noToggle
        /\ UNCHANGED <<store, notPage, notification, displayed>>

\* The callback of setTimeout in show that starts the animation:
\* this.dropdown.classList.add('show'), a TypeError when this.dropdown is
\* null.
dropdownShow(t) ==
    /\ t \in NextTimers
    /\ t.due <= uiNow
    /\ t.fn = "dropdownShow"
    /\ uiTimers' = uiTimers \ {t}
    /\ dropdown' = IF dropdown.element THEN [dropdown EXCEPT !.show = TRUE]
                   ELSE dropdown
    /\ UNCHANGED <<store, notPage, notification, displayed, toggled>>

\* The callback of setTimeout in show that makes handleOutsideClick listen
\* to the clicks on the document.
listen(t) ==
    /\ t \in NextTimers
    /\ t.due <= uiNow
    /\ t.fn = "listen"
    /\ uiTimers' = uiTimers \ {t}
    /\ dropdown' = [dropdown EXCEPT !.listening = TRUE]
    /\ UNCHANGED <<store, notPage, notification, displayed, toggled>>

\* The callback of setTimeout in hide: the dropdown leaves the body and
\* this.dropdown becomes null.
dropdownRemove(t) ==
    /\ t \in NextTimers
    /\ t.due <= uiNow
    /\ t.fn = "dropdownRemove"
    /\ uiTimers' = uiTimers \ {t}
    /\ dropdown' = [dropdown EXCEPT !.element = FALSE, !.show = FALSE,
                                    !.items = <<>>, !.active = {}]
    /\ UNCHANGED <<store, notPage, notification, displayed, toggled>>

\* Map.prototype.set
mapSet(map, key, value) ==
    [k \in DOMAIN map \cup {key} |-> IF k = key THEN value ELSE map[k]]

\* existingTags.find(t => t.name.toLowerCase() === name.toLowerCase()), as
\* the index of the tag found; 0 stands for undefined.
findTagByName(tgs, name) ==
    IF \E i \in 1..Len(tgs) : toLowerCase(tgs[i].name) = toLowerCase(name)
    THEN CHOOSE i \in 1..Len(tgs) :
            /\ toLowerCase(tgs[i].name) = toLowerCase(name)
            /\ \A j \in 1..(i - 1) : toLowerCase(tgs[j].name) # toLowerCase(name)
    ELSE 0

\* One iteration of jsonData.tags.forEach in ImportJSONModal.confirm; st
\* carries data.tags (existingTags is that very array) and tagIdMapping.
importTag(st, importedTag, accs) ==
    LET index == findTagByName(st.tags, importedTag.name)
    IN  IF index # 0
        THEN [st EXCEPT !.mapping = mapSet(@, importedTag.id, st.tags[index].id)]
        ELSE [tags    |-> Append(st.tags, [id    |-> generateTagUUID(st.tags, accs),
                                           name  |-> trim(importedTag.name),
                                           color |-> importedTag.color]),
              mapping |-> mapSet(st.mapping, importedTag.id,
                                 generateTagUUID(st.tags, accs))]

RECURSIVE importTags(_, _, _)
importTags(st, imported, accs) ==
    IF imported = <<>> THEN st
    ELSE importTags(importTag(st, Head(imported), accs), Tail(imported), accs)

\* acc.tags.map(oldTagId => tagIdMapping.get(oldTagId)).filter(id => id)
RECURSIVE mappedTags(_, _)
mappedTags(tagIds, mapping) ==
    IF tagIds = <<>> THEN <<>>
    ELSE IF Head(tagIds) \in DOMAIN mapping
         THEN <<mapping[Head(tagIds)]>> \o mappedTags(Tail(tagIds), mapping)
         ELSE mappedTags(Tail(tagIds), mapping)

\* ImportJSONModal.confirm() on the backup jsonData: the tags are merged
\* by name, then the accounts go through importAccounts with their tag
\* ids mapped.
importJSONModalConfirm(jsonData) ==
    LET merged == importTags([tags |-> tags, mapping |-> <<>>],
                             jsonData.tags, accounts)
        accountsToImport ==
            [k \in 1..Len(jsonData.accounts) |->
                [email    |-> jsonData.accounts[k].email,
                 password |-> jsonData.accounts[k].password,
                 totp     |-> jsonData.accounts[k].totp,
                 extras   |-> jsonData.accounts[k].extras,
                 tags     |-> mappedTags(jsonData.accounts[k].tags,
                                         merged.mapping)]]
        run   == importAccountsRun(accounts, accountsToImport)
        final == run[Len(run)]
    IN  /\ Cardinality(FreshTagIds(tags, accounts)) >= Len(jsonData.tags)
        /\ records + Len(accountsToImport) <= MaxRecords
        /\ Len(final.accounts) <= MaxAccounts
        /\ Len(merged.tags) <= MaxTags
        /\ tags' = merged.tags
        /\ accounts' = final.accounts
        /\ records' = records + Len(accountsToImport)
        /\ pre' = accounts
        /\ op' = [noCall EXCEPT !.name = "importAccounts",
                                !.batch = accountsToImport,
                                !.ret = TRUE, !.stats = final.stats, !.run = run,
                                !.json = jsonData, !.preTags = tags,
                                !.mapping = merged.mapping]
        /\ autoSaves((Len(merged.tags) - Len(tags)) + final.stats.added + 1)
        /\ show(notice("Imported: new, updated, skipped | Tags:",
                       <<final.stats.added, final.stats.updated,
                         final.stats.skipped, Len(jsonData.tags)>>), 3000)
        /\ UNCHANGED <<settings, storage, saved, notHandler>>

(***************************************************************************)
(* The one-time password generator and its cache.                          *)
(***************************************************************************)
Base32Alphabet ==
    <<"A", "B", "C", "D", "E", "F", "G", "H", "I", "J", "K", "L", "M",
      "N", "O", "P", "Q", "R", "S", "T", "U", "V", "W", "X", "Y", "Z",
      "2", "3", "4", "5", "6", "7">>

\* String.prototype.indexOf on the alphabet, counted from 0; -1 when the
\* character is not in it.
indexOf(alphabet, char) ==
    IF \E i \in 1..Len(alphabet) : alphabet[i] = char
    THEN (CHOOSE i \in 1..Len(alphabet) : alphabet[i] = char) - 1
    ELSE -1

\* The loop of TOTP.base32Decode from the character i on: output holds the
\* bytes written so far.  A byte is read from the bits 0..12 of value, so
\* the 30 low bits of the 32-bit integer value are kept.
RECURSIVE base32DecodeFrom(_, _, _, _, _)
base32DecodeFrom(encoded, i, value, bits, output) ==
    IF i > Len(encoded) THEN [thrown |-> FALSE, bytes |-> output]
    ELSE LET char      == toUpperChar(encoded[i])
             charIndex == indexOf(Base32Alphabet, char)
             shifted   == ((value % (2 ^ 25)) * 32) + charIndex
         IN  IF char = "=" THEN [thrown |-> FALSE, bytes |-> output]
             ELSE IF charIndex = -1 THEN [thrown |-> TRUE, bytes |-> <<>>]
             ELSE IF bits + 5 >= 8
                  THEN base32DecodeFrom(encoded, i + 1, shifted, bits + 5 - 8,
                          Append(output, (shifted \div (2 ^ (bits + 5 - 8))) % 256))
                  ELSE base32DecodeFrom(encoded, i + 1, shifted, bits + 5, output)

\* A decoder that passes over the characters it does not know.
RECURSIVE base32DecodeSkipping(_)
base32DecodeSkipping(encoded) ==
    IF \E i \in 1..Len(encoded) :
            /\ indexOf(Base32Alphabet, toUpperChar(encoded[i])) = -1
            /\ encoded[i] # "="
    THEN LET i == CHOOSE k \in 1..Len(encoded) :
                     /\ indexOf(Base32Alphabet, toUpperChar(encoded[k])) = -1
                     /\ encoded[k] # "="
         IN  base32DecodeSkipping(SubSeq(encoded, 1, i - 1)
                                     \o SubSeq(encoded, i + 1, Len(encoded)))
    ELSE base32DecodeFrom(encoded, 1, 0, 0, <<>>)

\* TOTP.base32Decode(encoded): the bytes, or thrown when a character is
\* not in the alphabet.
base32Decode(encoded) == base32DecodeFrom(encoded, 1, 0, 0, <<>>)

\* TOTP.hmacSha1(key, message): the digest is a function of the key and of
\* the message, which holds the time window.
hmacSha1(key, message) == [key |-> key, message |-> message]

\* The six digits that generate takes from the digest.
totpCode(hmac) == [text |-> "digits", of |-> hmac]

\* The code of a secret in a time window.
codeOf(secret, timeWindow) ==
    totpCode(hmacSha1(base32Decode(secret).bytes, timeWindow))

\* What generate resolves to from its catch block.
ErrorResult == [text |-> "Error", of |-> hmacSha1(<<>>, 0)]

\* Map.prototype.delete of the keys that are not in keys.
mapKeep(map, keys) == [k \in DOMAIN map \cap keys |-> map[k]]

size(map) == Cardinality(DOMAIN map)

\* Map.prototype.get of a key that is not in the map.
noEntry == [code |-> ErrorResult, timeWindow |-> -1]

\* A test that takes an entry of any window.
cacheHitAnyWindow(cached, currentWindow) == cached.timeWindow >= 0

\* The test of generate for a cached entry.
cacheHit(cached, currentWindow) == cached.timeWindow = currentWindow

\* TOTP.cleanCache() in the window currentWindow
cleanCacheAt(map, currentWindow) ==
    mapKeep(map, {secret \in DOMAIN map :
                    ~(map[secret].timeWindow < currentWindow - 1)})

\* The capacity of the cache (100 in the program).
MAX_CACHE_SIZE == MaxCacheSize

\* aggressiveCleanCache that stops after the entries of other windows.
aggressiveCleanCacheNoClear(map, currentWindow) ==
    mapKeep(map, {secret \in DOMAIN map :
                    ~(map[secret].timeWindow # currentWindow)})

\* TOTP.aggressiveCleanCache() in the window currentWindow
aggressiveCleanCache(map, currentWindow) ==
    LET purged == mapKeep(map, {secret \in DOMAIN map :
                                  ~(map[secret].timeWindow # currentWindow)})
    IN  IF size(purged) > MAX_CACHE_SIZE THEN <<>> ELSE purged

\* TOTP.generate(secret) up to its await or its return: the window is
\* read, the cache is looked up, the secret is decoded and the digest is
\* asked for.  seen tells whether a call for the secret has begun and
\* resolved to a code in the window of the clock.
generateBegin(secret) ==
    LET currentWindow == clock
        cached  == IF secret \in DOMAIN cache THEN cache[secret] ELSE noEntry
        decoded == base32Decode(secret)
        call    == [secret |-> secret, currentWindow |-> currentWindow,
                    seen |-> secret \in done]
        return(result) ==
            /\ returned' = [noReturn EXCEPT !.call = call, !.result = result,
                                            !.at = clock, !.before = cache,
                                            !.after = cache]
            /\ UNCHANGED calls
    IN  /\ begun < MaxCalls
        /\ begun' = begun + 1
        /\ IF cached # noEntry /\ cacheHit(cached, currentWindow)
           THEN /\ return(cached.code)
                /\ done' = done \cup {secret}
           ELSE IF decoded.thrown
           THEN /\ return(ErrorResult)
                /\ UNCHANGED done
           ELSE /\ calls' = Append(calls, call)
                /\ returned' = noReturn
                /\ UNCHANGED done
        /\ UNCHANGED <<cache, clock, notTOTP>>

\* generateEnd of a generator that keeps the secret of the call in a field
\* shared by the calls in flight: the digest is that of the call begun last.
generateEndSharedSecret(i) ==
    LET call     == calls[i]
        shared   == calls[Len(calls)].secret
        hmac     == hmacSha1(base32Decode(shared).bytes, call.currentWindow)
        code     == totpCode(hmac)
        inserted == mapSet(cache, call.secret,
                           [code |-> code, timeWindow |-> call.currentWindow])
        cleaned  == size(inserted) > MAX_CACHE_SIZE
    IN  /\ cache' = IF cleaned THEN aggressiveCleanCache(inserted, clock)
                    ELSE inserted
        /\ calls' = SubSeq(calls, 1, i - 1) \o SubSeq(calls, i + 1, Len(calls))
        /\ returned' = [call |-> call, result |-> code, hmac |-> TRUE,
                        at |-> clock, before |-> cache,
                        cleaned |-> cleaned, after |-> cache']
        /\ done' = IF call.currentWindow = clock THEN done \cup {call.secret}
                   ELSE done
        /\ UNCHANGED <<begun, clock, notTOTP>>

\* TOTP.generate after its await, for the call i of those in flight: the
\* code is taken from the digest and cached, and the cache is cleaned when
\* it is too large.
generateEnd(i) ==
    LET call     == calls[i]
        hmac     == hmacSha1(base32Decode(call.secret).bytes, call.currentWindow)
        code     == totpCode(hmac)
        inserted == mapSet(cache, call.secret,
                           [code |-> code, timeWindow |-> call.currentWindow])
        cleaned  == size(inserted) > MAX_CACHE_SIZE
    IN  /\ cache' = IF cleaned THEN aggressiveCleanCache(inserted, clock)
                    ELSE inserted
        /\ calls' = SubSeq(calls, 1, i - 1) \o SubSeq(calls, i + 1, Len(calls))
        /\ returned' = [call |-> call, result |-> code, hmac |-> TRUE,
                        at |-> clock, before |-> cache,
                        cleaned |-> cleaned, after |-> cache']
        /\ done' = IF call.currentWindow = clock THEN done \cup {call.secret}
                   ELSE done
        /\ UNCHANGED <<begun, clock, notTOTP>>

\* One tick of the wall clock, in milliseconds.
TickMs == 10000

\* The length of a time window, in seconds.
WindowSeconds == 30

\* TOTP.getCurrentTimeWindow() at the time ms of Date.now()
getCurrentTimeWindow(ms) == (ms \div 1000) \div WindowSeconds

\* Thirty seconds pass: no call has yet resolved in the new window.
tick ==
    /\ clock < MaxWindow
    /\ clock' = clock + 1
    /\ now' = ((clock + 1) * WindowSeconds * 1000) \div TickMs
    /\ done' = {}
    /\ returned' = noReturn
    /\ UNCHANGED <<cache, calls, begun, notTime, refresh>>

\* TOTP.cleanCache(), called by the timer of startTOTPUpdates.
cleanCache ==
    /\ cache' = cleanCacheAt(cache, clock)
    /\ returned' = noReturn
    /\ UNCHANGED <<clock, calls, done, begun, notTOTP>>

(***************************************************************************)
(* The refresh of the codes at the change of the time window.              *)
(***************************************************************************)
\* The delay of a refresh every 30 seconds from the moment it is asked for.
msFixedInterval(ms) == WindowSeconds * 1000

\* msUntilNextWindow of scheduleNextUpdate at the time ms of Date.now()
msUntilNextWindow(ms) ==
    LET currentSecond   == ms \div 1000
        currentWindow   == currentSecond \div WindowSeconds
        nextWindowStart == (currentWindow + 1) * WindowSeconds
    IN  (nextWindowStart * 1000) - ms

\* The card whose code is shown.
VisibleSecrets == {<<"B", "A">>}

\* The calls of TOTP.generate that updateVisibleTOTPs begins for the cards
\* in visibleCards and that wait for their digest.
RECURSIVE generateCalls(_, _)
generateCalls(secrets, currentWindow) ==
    IF secrets = {} THEN <<>>
    ELSE LET secret == CHOOSE x \in secrets : TRUE
             cached == IF secret \in DOMAIN cache THEN cache[secret] ELSE noEntry
             rest   == generateCalls(secrets \ {secret}, currentWindow)
         IN  IF (cached # noEntry /\ cacheHit(cached, currentWindow))
                    \/ base32Decode(secret).thrown
             THEN rest
             ELSE <<[secret |-> secret, currentWindow |-> currentWindow,
                     seen |-> secret \in done]>> \o rest

\* updateVisibleTOTPs() up to its await: generate is begun for each card.
updateVisibleTOTPs(visible) ==
    /\ calls' = calls \o generateCalls(visible, clock)
    /\ done' = done \cup {secret \in visible \cap DOMAIN cache :
                            cacheHit(cache[secret], clock)}
    /\ begun' = begun + Cardinality(visible)
    /\ returned' = noReturn

\* new CredentialsApp(): init() calls startTOTPUpdates() while no card is
\* in visibleCards yet, and the first timeout is set.
startTOTPUpdates ==
    /\ app = "loading"
    /\ app' = "running"
    /\ timers' = setTimeout(timers, 1, now * TickMs, msUntilNextWindow(now * TickMs))
    /\ totpUpdateInterval' = 1
    /\ fired' = [noFiring EXCEPT !.by = "start", !.at = now, !.window = clock,
                                 !.before = cache, !.cache = cache,
                                 !.calls = calls]
    /\ UNCHANGED <<now, cache, clock, calls, returned, done, begun, notTime>>

\* The callback of the timeout t of scheduleNextUpdate, with the cards
\* of visibleCards: the codes are asked for, the cache is cleaned and the
\* next timeout is set.
totpUpdate(t, visible) ==
    LET id == fired.count + 2
    IN  /\ t \in timers
        /\ t.due <= now * TickMs
        /\ updateVisibleTOTPs(visible)
        /\ cache' = cleanCacheAt(cache, clock)
        /\ timers' = setTimeout(timers \ {t}, id, now * TickMs,
                                msUntilNextWindow(now * TickMs))
        /\ totpUpdateInterval' = id
        /\ fired' = [by |-> "timer", count |-> fired.count + 1, at |-> now,
                     due |-> t.due, window |-> clock, visible |-> visible,
                     before |-> cache, cache |-> cache', calls |-> calls']
        /\ UNCHANGED <<now, clock, app, notTime>>

\* CredentialsApp.destroy(): the timeout is cleared and so is the cache.
destroy ==
    /\ app = "running"
    /\ app' = "destroyed"
    /\ IF totpUpdateInterval # noTimer
       THEN /\ timers' = clearTimeout(timers, totpUpdateInterval)
            /\ totpUpdateInterval' = noTimer
       ELSE UNCHANGED <<timers, totpUpdateInterval>>
    /\ cache' = <<>>
    /\ returned' = noReturn
    /\ UNCHANGED <<now, clock, calls, done, begun, fired, notTime>>

\* One tick of the wall clock passes; a timeout that is due runs its
\* callback no later than MaxLate ticks after it is due.
pass ==
    /\ (now + 1) * TickMs < (MaxWindow + 1) * WindowSeconds * 1000
    /\ \A t \in timers : (now + 1) * TickMs <= t.due + (MaxLate * TickMs)
    /\ now' = now + 1
    /\ clock' = getCurrentTimeWindow(now' * TickMs)
    /\ done' = IF clock' # clock THEN {} ELSE done
    /\ returned' = noReturn
    /\ UNCHANGED <<cache, calls, begun, refresh, notTime>>

(***************************************************************************)
(* Saving the data.                                                        *)
(***************************************************************************)
\* Storage.set(key, value) when localStorage.setItem succeeds (ok) or
\* throws: the item it leaves and the flag it returns.
StorageSet(item, value, ok) ==
    IF ok THEN [item |-> value, ret |-> TRUE]
    ELSE [item |-> item, ret |-> FALSE]

\* DataStore.save(), as a change of storage and saved, for the data that
\* are in memory once the caller is through.
save(ok, memory) ==
    LET set == StorageSet(storage, memory, ok)
    IN  /\ storage' = set.item
        /\ saved' = [called |-> TRUE, written |-> set.ret,
                     event |-> "dataSaved", before |-> memory,
                     after |-> data(accounts', tags', settings'),
                     requests |-> requests]

\* The timer of autoSave fires: later() of Utils.debounce calls save.
later(ok) ==
    /\ timeout > 0
    /\ timeout' = timeout - 1
    /\ requests' = 0
    /\ UNCHANGED <<accounts, records, pre, op, tags, settings, notStore>>
    /\ save(ok, data(accounts, tags, settings))

\* DataStore.updateSettings(updates), for the theme.
updateSettings(theme) ==
    /\ settings' = [settings EXCEPT !.theme = theme]
    /\ autoSave
    /\ UNCHANGED <<accounts, records, pre, op, tags, storage, saved, notStore>>

\* DataStore.clearAllData()
clearAllData(ok) ==
    /\ accounts' = <<>>
    /\ tags' = <<>>
    /\ settings' = defaultSettings
    /\ save(ok, data(<<>>, <<>>, defaultSettings))
    /\ pre' = accounts
    /\ op' = [noCall EXCEPT !.name = "clearAllData"]
    /\ UNCHANGED <<records, timeout, requests, notStore>>

(***************************************************************************)
(* Specifications.                                                         *)
(***************************************************************************)
\* Every operation on the accounts, reorderAccounts with any position from
\* 0 to count (the drop handler passes target.order or target.order + 1).
Next ==
    \/ \E d \in StoreCandidates : addAccount(d)
    \/ \E id \in Ids : deleteAccount(id)
    \/ \E id \in Ids, n \in 0..Len(accounts) : reorderAccounts(id, n)
    \/ \E b \in Batches(StoreCandidates) : importAccounts(b)

Spec == Init /\ [][Next]_vars

\* Accounts are added and moved to positions 0..count-1; none is deleted.
NextReorder ==
    \/ \E d \in ReorderCandidates : addAccount(d)
    \/ \E id \in UsedIds(accounts), n \in 0..(Len(accounts) - 1) :
            reorderAccounts(id, n)

SpecReorder == Init /\ [][NextReorder]_vars

\* Tags are created, deleted, put on accounts and taken off them, while
\* accounts are added and imported.
NextTags ==
    \/ \E n \in TagNames, c \in TagColors : createTag(n, c)
    \/ \E id \in TagIds : deleteTag(id)
    \/ \E id \in 1..(MaxTagged + 1), t \in TagIds : addTagToAccount(id, t)
    \/ \E id \in 1..(MaxTagged + 1), t \in TagIds : removeTagFromAccount(id, t)
    \/ \E d \in StoreCandidates : Len(accounts) < MaxTagged /\ addAccount(d)
    \/ \E b \in Batches(StoreCandidates) :
            /\ Len(accounts) + Len(b) <= MaxTagged
            /\ importAccounts(b)

SpecTags == Init /\ [][NextTags]_vars

\* Imports into a store that starts empty.
NextMerge == \E b \in Batches(MergeCandidates) : importAccounts(b)

SpecMerge == Init /\ [][NextMerge]_vars

\* A secret of the length validateTOTP asks for, made of one character.
Secret(c) == [i \in 1..TotpLength |-> c]

Address == <<"a", "@", "b", ".", "c">>

\* Import files: an account without secret; the same account without
\* secret and then with a lower-case secret; an account with an upper-case
\* secret; a line whose secret is too short and then a valid line.
FileTexts ==
    {Address \o <<"|">> \o p,
     Address \o <<"|">> \o p \o <<"\n">>
        \o Address \o <<"|">> \o p \o <<"|">> \o Secret("x"),
     Address \o <<"|">> \o p \o <<"|">> \o Secret("X"),
     Address \o <<"|">> \o p \o <<"|">> \o X \o <<"\n">>
        \o Address \o <<"|">> \o q \o <<"|">> \o Secret("x")}

\* The values typed into the secret field of the account form.
FormSecrets == {<<>>, Secret("y") \o <<" ">>, Y}

\* A backup of one account with a lower-case secret.
JSONBackups ==
    {[accounts |-> <<[email |-> Address, password |-> q,
                      totp |-> Secret("z"), extras |-> <<>>, tags |-> <<>>]>>,
      tags |-> <<>>]}

\* Accounts enter the store through the account form, the import of a
\* delimited text file and the import of a JSON backup.
NextSecrets ==
    \/ \E t \in FormSecrets \ {<<>>} :
            /\ Len(accounts) <= MaxSaved
            /\ accountModalConfirm(NoAccount, Address, p, t, <<"e", ",", " ", "f">>)
    \/ \E id \in UsedIds(accounts), t \in FormSecrets :
            /\ Len(accounts) <= MaxSaved
            /\ accountModalConfirm(id, Address, p, t, <<>>)
    \/ \E text \in FileTexts : importModalConfirm(text, <<"|">>, TRUE)
    \/ \E j \in JSONBackups : importJSONModalConfirm(j)

SpecSecrets == Init /\ [][NextSecrets]_vars

\* The secrets of the cards: one more than the cache holds, each decoding
\* to another key.
CardSecrets == {<<Base32Alphabet[k + 1], "A">> : k \in 1..(MaxCacheSize + 1)}

\* The secrets the generator knows of.
Generated ==
    DOMAIN cache \cup done \cup {calls[i].secret : i \in 1..Len(calls)}

\* The secrets differ only by name: of those the generator knows nothing
\* of, the least is the next to be generated.
Offered ==
    Generated \cup
    {s \in CardSecrets \ Generated :
        \A t \in CardSecrets \ Generated :
            indexOf(Base32Alphabet, s[1]) <= indexOf(Base32Alphabet, t[1])}

\* Cards ask for their code while the clock goes on; the digest of a call
\* arrives at any later moment.
NextTOTP ==
    \/ \E secret \in Offered : generateBegin(secret)
    \/ \E i \in 1..Len(calls) : generateEnd(i)
    \/ tick
    \/ cleanCache

SpecTOTP == Init /\ [][NextTOTP]_vars

\* Secrets as a backup can hold them: a valid one in lower case, one with
\* a digit that Base32 does not have, one with letters only after such a
\* digit, and one with such a digit after the pad character.
DecodeSecrets ==
    {<<"b", "a">>, <<"B", "1">>, <<"8", "B", "A">>, <<"B", "A", "=", "1">>}

NextDecode ==
    \/ \E secret \in DecodeSecrets : generateBegin(secret)
    \/ \E i \in 1..Len(calls) : generateEnd(i)
    \/ tick
    \/ cleanCache

SpecDecode == Init /\ [][NextDecode]_vars

Themes == {"dark", "light"}

\* The data change and are saved; localStorage.setItem may throw at any
\* call (the quota is exceeded, the storage is disabled).
NextSave ==
    \/ \E d \in StoreCandidates : Len(accounts) < MaxSaved /\ addAccount(d)
    \/ \E id \in 1..(MaxSaved + 1) : deleteAccount(id)
    \/ \E n \in TagNames, c \in TagColors : createTag(n, c)
    \/ \E theme \in Themes : updateSettings(theme)
    \/ \E ok \in BOOLEAN : clearAllData(ok)
    \/ \E ok \in BOOLEAN : later(ok)

SpecSave == Init /\ [][NextSave]_vars

\* Accounts, one tag and the theme change in bursts and all is cleared,
\* while the timeout of autoSave runs its callback at any moment.
NextDebounce ==
    \/ \E d \in StoreCandidates : Len(accounts) < MaxSaved /\ addAccount(d)
    \/ \E n \in TagNames, c \in TagColors : tags = <<>> /\ createTag(n, c)
    \/ \E theme \in Themes : updateSettings(theme)
    \/ \E ok \in BOOLEAN : clearAllData(ok)
    \/ \E ok \in BOOLEAN : later(ok)

\* A timeout that is pending runs its callback in the end.
SpecDebounce ==
    Init /\ [][NextDebounce]_vars /\ WF_vars(\E ok \in BOOLEAN : later(ok))

\* The lines of a file: an account, an account with an empty secret and an
\* extra, an account on a line that ends with a carriage return, an empty
\* line, a line of spaces, a comment, an indented comment, a line of one
\* field, a line without a valid email and a line with a secret that is
\* too short.
ParsedLines ==
    {Address \o <<"|">> \o p,
     Address \o <<"|">> \o p \o <<"|", "|">> \o e,
     Address \o <<"|">> \o q \o <<"\r">>,
     <<>>,
     <<" ", " ">>,
     <<"#", "c">>,
     <<" ", "#", "c">>,
     <<"x">>,
     <<"a", "b", "|">> \o p,
     Address \o <<"|">> \o p \o <<"|">> \o X}

\* The files of at most n lines.
RECURSIVE TextsUpTo(_, _)
TextsUpTo(lines, n) ==
    IF n = 1 THEN lines
    ELSE LET shorter == TextsUpTo(lines, n - 1)
         IN  shorter \cup {t \o <<"\n">> \o l : t \in shorter, l \in lines}

\* A file is parsed, with or without the column of the secret.
NextParse ==
    \E text \in TextsUpTo(ParsedLines, MaxLines), withTOTP \in BOOLEAN :
        /\ parserInput = noInput
        /\ parseCall(text, <<"|">>, withTOTP)

SpecParse == Init /\ [][NextParse]_vars

\* The lines of a previewed file: three fields by |, by :, by both, by ;;
\* one field, a comment, an indented comment and an empty line.
DetectedLines ==
    {<<"a", "|", "b", "|", "c">>,
     <<"a", ":", "b", ":", "c">>,
     <<"a", ":", "b", "|", "c", "|", "d", ":", "e">>,
     <<"a", ";", ";", "b", ";", ";", "c">>,
     <<"x">>,
     <<"#", "a", ":", "b", ":", "c">>,
     <<" ", "#", "a", "|", "b", "|", "c">>,
     <<>>}

\* The delimiter of a file is detected.
NextDetect ==
    \E text \in TextsUpTo(DetectedLines, MaxDetectLines) :
        /\ parserInput = noInput
        /\ detectCall(text)

SpecDetect == Init /\ [][NextDetect]_vars

\* Accounts are added, deleted and moved to any position from 0 to count,
\* by their own id or by an id that no account carries.
NextFrame ==
    \/ \E d \in StoreCandidates : addAccount(d)
    \/ \E id \in UsedIds(accounts) : deleteAccount(id)
    \/ \E id \in UsedIds(accounts) \cup {generateUUID(accounts)},
          n \in 0..Len(accounts) : reorderAccounts(id, n)

SpecFrame == Init /\ [][NextFrame]_vars

\* The application is started at any moment of a window and is destroyed
\* at any later moment, while the wall clock goes on, a card that comes
\* into view asks for its code and the digests arrive in the order of
\* their calls.
NextUpdates ==
    \/ startTOTPUpdates
    \/ \E secret \in VisibleSecrets :
            /\ app = "running"
            /\ calls = <<>>
            /\ generateBegin(secret)
    \/ \E t \in timers, visible \in SUBSET VisibleSecrets : totpUpdate(t, visible)
    \/ calls # <<>> /\ generateEnd(1)
    \/ destroy
    \/ pass

SpecUpdates == Init /\ [][NextUpdates]_vars

\* Secrets that validateTOTP accepts: lower-case letters, a digit of the
\* Base32 alphabet, and letters that end in a digit Base32 does not have.
ValidatedSecrets ==
    {Secret("b"), Secret("7"),
     [i \in 1..TotpLength |-> IF i = TotpLength THEN "9" ELSE "B"]}

\* A file of one account whose secret is made of the digit 0.
ValidatedTexts == {Address \o <<"|">> \o q \o <<"|">> \o Secret("0")}

\* Accounts enter the store through the account form and the import of a
\* text file, and their cards ask for their codes, one at a time.
NextValidated ==
    \/ \E t \in ValidatedSecrets :
            /\ Len(accounts) < MaxSaved
            /\ accountModalConfirm(NoAccount, Address, p, t, <<>>)
    \/ \E text \in ValidatedTexts :
            /\ Len(accounts) <= MaxSaved
            /\ importModalConfirm(text, <<"|">>, TRUE)
    \/ \E i \in 1..Len(accounts) :
            /\ Truthy(trim(accounts[i].totp))
            /\ calls = <<>>
            /\ generateBegin(accounts[i].totp)
    \/ calls # <<>> /\ generateEnd(1)
    \/ tick

SpecValidated == Init /\ [][NextValidated]_vars

\* Records typed into the account form one after another: one address and
\* password with a secret, without one, and with another secret.
RestoreCandidates ==
    {candidate(a, p, X, <<>>), candidate(a, p, <<>>, <<e>>),
     candidate(a, p, Y, <<f>>), candidate(a, q, <<>>, <<>>)}

\* Accounts are added, the store is exported to a backup and cleared, and
\* the backup is imported into the empty store.
NextRestore ==
    \/ \E d \in RestoreCandidates :
            /\ backup = noBackup
            /\ Len(accounts) < MaxTagged
            /\ addAccount(d)
    \/ accounts # <<>> /\ backup = noBackup /\ exportJSON
    \/ \E ok \in BOOLEAN : backup # noBackup /\ accounts # <<>> /\ clearAllData(ok)
    \/ /\ backup # noBackup
       /\ accounts = <<>>
       /\ tags = <<>>
       /\ importJSONModalConfirm(backup)

SpecRestore == Init /\ [][NextRestore]_vars

\* Accounts are added and their cards are dropped on one another, as long
\* as no order is above the number of accounts the store may hold.
NextDrop ==
    \/ \E d \in StoreCandidates : addAccount(d)
    \/ \E id \in UsedIds(accounts), t \in UsedIds(accounts), below \in BOOLEAN :
            /\ \A i \in 1..Len(accounts) : accounts[i].order <= MaxAccounts
            /\ drop(id, t, below)

SpecDrop == Init /\ [][NextDrop]_vars

\* Backups: a tag whose name differs by case from the name w given to the
\* tags of the store, with another colour; a tag whose name carries a
\* leading space, on an account that also refers to a tag the backup does
\* not hold; two tags whose names differ by case.
BackupColor == "#ff0000"

BackupsJSON ==
    {[accounts |-> <<[email |-> a, password |-> p, totp |-> X,
                      extras |-> <<e>>, tags |-> <<1>>]>>,
      tags |-> <<[id |-> 1, name |-> <<"W">>, color |-> BackupColor]>>],
     [accounts |-> <<[email |-> a, password |-> q, totp |-> <<>>,
                      extras |-> <<>>, tags |-> <<1, 2>>]>>,
      tags |-> <<[id |-> 1, name |-> <<" ", "w">>, color |-> BackupColor]>>],
     [accounts |-> <<[email |-> a, password |-> p, totp |-> Y,
                      extras |-> <<>>, tags |-> <<2, 1>>]>>,
      tags |-> <<[id |-> 1, name |-> <<"w">>, color |-> "#6f00ff"],
                 [id |-> 2, name |-> <<"W">>, color |-> BackupColor]>>]}

\* Backups are imported into a store whose tags are created and put on
\* accounts.
NextJSON ==
    \/ \E n \in TagNames, c \in TagColors : createTag(n, c)
    \/ \E id \in 1..(MaxTagged + 1), t \in TagIds : addTagToAccount(id, t)
    \/ \E d \in StoreCandidates : Len(accounts) < MaxTagged /\ addAccount(d)
    \/ \E j \in BackupsJSON :
            /\ Len(accounts) + Len(j.accounts) <= MaxTagged
            /\ importJSONModalConfirm(j)

SpecJSON == Init /\ [][NextJSON]_vars

(***************************************************************************)
(* Properties of the order field.                                          *)
(***************************************************************************)
\* The order values of accs are a dense permutation of 0..count-1.
Dense(accs) ==
    \A k \in 0..(Len(accs) - 1) :
        Cardinality({i \in 1..Len(accs) : accs[i].order = k}) = 1

NoSharedOrder(accs) ==
    \A i, j \in 1..Len(accs) : i # j => accs[i].order # accs[j].order

\* The account of accs that carries id.
accountOf(accs, id) == accs[findIndex(accs, id)]

\* C1: in every reachable state of the store the order values of the
\* accounts are a dense permutation of 0..count-1.
C1_DensePermutation == Dense(accounts)

\* C2: deleteAccount of the account whose order is k lowers by one the
\* order of every remaining account whose order was above k, leaves the
\* orders below k alone, and leaves no two accounts with one order.
C2_DeleteCompaction ==
    (op.name = "deleteAccount" /\ op.ret) =>
        LET k == accountOf(pre, op.id).order
        IN  /\ \A i \in 1..Len(accounts) :
                LET before == accountOf(pre, accounts[i].id)
                IN  /\ before.order > k => accounts[i].order = before.order - 1
                    /\ before.order < k => accounts[i].order = before.order
            /\ NoSharedOrder(accounts)

\* C3: from accounts whose orders are 0..N-1, every reorderAccounts call
\* with an existing id and a position in 0..N-1 leaves the orders a dense
\* permutation of 0..N-1 and the moved account at the position asked for.
C3_ReorderInvariant ==
    /\ Dense(accounts)
    /\ (op.name = "reorderAccounts" /\ op.ret) =>
            /\ Len(accounts) = Len(pre)
            /\ accountOf(accounts, op.id).order = op.newOrder

\* A move over at least two positions, in either direction, has happened.
C3_Witness ==
    /\ op.name = "reorderAccounts"
    /\ op.ret
    /\ Len(accounts) = MaxAccounts
    /\ accountOf(pre, op.id).order + 2 <= op.newOrder

\* C4: reorderAccounts(accountId, count) on dense orders, for an account
\* that is not the last one, is an append: the moved account is last in
\* display order and the orders are again a dense permutation.
C4_AppendReorder ==
    (/\ op.name = "reorderAccounts"
     /\ op.ret
     /\ Dense(pre)
     /\ op.newOrder = Len(pre)
     /\ accountOf(pre, op.id).order < Len(pre) - 1) =>
        /\ getAccountsSorted(accounts)[Len(accounts)].id = op.id
        /\ Dense(accounts)

(***************************************************************************)
(* Properties of the merge engine.  They are stated of every iteration of  *)
(* an importAccounts call: candidate i finds the accounts Before(i) and    *)
(* leaves the accounts After(i).                                           *)
(***************************************************************************)
Iterations == IF op.name = "importAccounts" THEN 1..Len(op.batch) ELSE {}

Cand(i) == op.batch[i]

Before(i) == op.run[i].accounts

After(i) == op.run[i + 1].accounts

Outcome(i) == op.run[i + 1].outcome

\* The counters moved by iteration i: exactly the one named, by one.
Counted(i, counter) ==
    /\ Outcome(i) = counter
    /\ \A c \in {"added", "updated", "skipped"} :
          op.run[i + 1].stats[c] = op.run[i].stats[c] + (IF c = counter THEN 1 ELSE 0)

\* The position in Before(i) of the account candidate i is matched with:
\* the first one with its normalized email and its exact password.
Match(i) == findExisting(Before(i), Cand(i))

\* A secret is present when it is not empty after trimming.
Present(totp) == trim(totp) # <<>>

\* The elements of new that the union appends to old: those not in old, at
\* their first occurrence in new.
RECURSIVE Appended(_, _, _)
Appended(old, new, k) ==
    IF k > Len(new) THEN <<>>
    ELSE IF includes(old, new[k]) \/ \E j \in 1..(k - 1) : new[j] = new[k]
         THEN Appended(old, new, k + 1)
         ELSE <<new[k]>> \o Appended(old, new, k + 1)

UnionExtras(old, new) == old \o Appended(old, new, 1)

\* Every account of accs but the one at idx is in accs2 as it was, and no
\* account was added.
OthersUnchanged(accs, accs2, idx) ==
    /\ Len(accs2) = Len(accs)
    /\ \A j \in 1..Len(accs) : j # idx => accs2[j] = accs[j]

\* C5: importing a batch and then the identical batch again adds nothing
\* the second time and leaves the number of accounts unchanged.
C5_MergeIdempotence ==
    [][(/\ op.name = "importAccounts"
        /\ op'.name = "importAccounts"
        /\ op'.batch = op.batch) =>
            /\ op'.stats.added = 0
            /\ Len(accounts') = Len(accounts)]_vars

\* C6: a candidate without a secret that matches an account with a secret
\* is counted as skipped and changes nothing; and no importAccounts call
\* changes or clears a stored non-empty secret.
C6_TOTPLossProtection ==
    /\ \A i \in Iterations :
          (/\ Match(i) # 0
           /\ Present(Before(i)[Match(i)].totp)
           /\ ~Present(Cand(i).totp)) =>
              /\ Counted(i, "skipped")
              /\ After(i) = Before(i)
    /\ op.name = "importAccounts" =>
          \A j \in 1..Len(pre) :
              pre[j].totp # <<>> =>
                  /\ j <= Len(accounts)
                  /\ accounts[j].id = pre[j].id
                  /\ accounts[j].totp = pre[j].totp

\* A candidate without a secret, whose extras the matched account lacks,
\* met an account with a secret.
C6_Witness ==
    \E i \in Iterations :
        /\ Match(i) # 0
        /\ Present(Before(i)[Match(i)].totp)
        /\ ~Present(Cand(i).totp)
        /\ Cand(i).totp # <<>>
        /\ \E k \in 1..Len(Cand(i).extras) :
              ~includes(Before(i)[Match(i)].extras, Cand(i).extras[k])

\* C7: a candidate whose secret differs from the secret of the account it
\* matches, both present, is added as a new account and counted as added;
\* the existing accounts are unchanged and the store then holds two
\* accounts with that email and password.
C7_DifferingSecretDuplication ==
    \A i \in Iterations :
        (/\ Match(i) # 0
         /\ Present(Before(i)[Match(i)].totp)
         /\ Present(Cand(i).totp)
         /\ Before(i)[Match(i)].totp # Cand(i).totp) =>
            LET n == Len(Before(i))
            IN  /\ Counted(i, "added")
                /\ Len(After(i)) = n + 1
                /\ SubSeq(After(i), 1, n) = Before(i)
                /\ After(i)[n + 1].email = After(i)[Match(i)].email
                /\ After(i)[n + 1].password = After(i)[Match(i)].password
                /\ After(i)[n + 1].totp = normalizeTOTP(Cand(i).totp)
                /\ After(i)[n + 1].extras = Cand(i).extras
                /\ \A j \in 1..n : After(i)[j].id # After(i)[n + 1].id

\* A candidate written with another email case met an account with a
\* really different secret.
C7_Witness ==
    \E i \in Iterations :
        /\ Match(i) # 0
        /\ Present(Before(i)[Match(i)].totp)
        /\ Present(Cand(i).totp)
        /\ normalizeTOTP(Before(i)[Match(i)].totp) # normalizeTOTP(Cand(i).totp)
        /\ Cand(i).email # Before(i)[Match(i)].email

\* C8: when both sides have a secret, the secrets are compared after
\* case/trim normalization: a candidate whose secret is the stored one up
\* to letter case or surrounding white space adds no account and counts as
\* updated or skipped.
C8_NormalizedComparison ==
    \A i \in Iterations :
        (/\ Match(i) # 0
         /\ Present(Before(i)[Match(i)].totp)
         /\ Present(Cand(i).totp)
         /\ normalizeTOTP(Before(i)[Match(i)].totp) = normalizeTOTP(Cand(i).totp)) =>
            /\ Outcome(i) \in {"updated", "skipped"}
            /\ Len(After(i)) = Len(Before(i))

\* C9: a candidate with a secret that matches an account without one gives
\* the account its secret and the union of the extras, is counted as
\* updated whether or not the extras changed, and adds no account.
C9_AdoptTOTP ==
    \A i \in Iterations :
        (/\ Match(i) # 0
         /\ ~Present(Before(i)[Match(i)].totp)
         /\ Present(Cand(i).totp)) =>
            LET existing == Before(i)[Match(i)]
            IN  /\ Counted(i, "updated")
                /\ OthersUnchanged(Before(i), After(i), Match(i))
                /\ After(i)[Match(i)] =
                      [existing EXCEPT
                          !.totp = Cand(i).totp,
                          !.extras = UnionExtras(existing.extras, Cand(i).extras)]

\* A secret was adopted from a candidate that brought no new extra.
C9_Witness ==
    \E i \in Iterations :
        /\ Match(i) # 0
        /\ ~Present(Before(i)[Match(i)].totp)
        /\ Present(Cand(i).totp)
        /\ Cand(i).extras # <<>>
        /\ After(i)[Match(i)].extras = Before(i)[Match(i)].extras

\* C10: in the rows that union extras (the same secret on both sides, or
\* no secret on either side) the account's extras become its previous
\* extras followed by each candidate extra not yet present, once; the
\* record is counted as updated exactly when an extra was appended and as
\* skipped otherwise; nothing else changes.
C10_UnionExtras ==
    \A i \in Iterations :
        (/\ Match(i) # 0
         /\ \/ /\ Present(Before(i)[Match(i)].totp)
               /\ Present(Cand(i).totp)
               /\ Before(i)[Match(i)].totp = Cand(i).totp
            \/ /\ ~Present(Before(i)[Match(i)].totp)
               /\ ~Present(Cand(i).totp)) =>
            LET existing == Before(i)[Match(i)]
                union    == UnionExtras(existing.extras, Cand(i).extras)
            IN  /\ OthersUnchanged(Before(i), After(i), Match(i))
                /\ After(i)[Match(i)] = [existing EXCEPT !.extras = union]
                /\ IF Len(union) > Len(existing.extras)
                   THEN Counted(i, "updated")
                   ELSE Counted(i, "skipped")

\* The same secret on both sides, and a candidate that lists one new extra
\* twice: it was appended once.
C10_Witness ==
    \E i \in Iterations :
        /\ Match(i) # 0
        /\ Present(Cand(i).totp)
        /\ Before(i)[Match(i)].totp = Cand(i).totp
        /\ Len(Cand(i).extras) = 2
        /\ Before(i)[Match(i)].extras # <<>>
        /\ Len(After(i)[Match(i)].extras) = Len(Before(i)[Match(i)].extras) + 1

(***************************************************************************)
(* Properties of the tags.                                                 *)
(***************************************************************************)
\* C11: in every reachable state every tag id in every account's tags list
\* is the id of a tag of the store.
C11_TagReferences ==
    \A i \in 1..Len(accounts) :
        \A k \in 1..Len(accounts[i].tags) :
            accounts[i].tags[k] \in TagIdsOf(tags)

(***************************************************************************)
(* Properties of the stored secrets.                                       *)
(***************************************************************************)
\* C12: in every reachable state of the store, the secret of each account
\* is empty or has exactly 32 characters, each an upper-case letter or a
\* digit, whether it came from the account form, updateAccount, a text
\* import or a JSON backup.
C12_StoredSecrets ==
    \A i \in 1..Len(accounts) :
        \/ accounts[i].totp = <<>>
        \/ /\ Len(accounts[i].totp) = 32
           /\ \A k \in 1..Len(accounts[i].totp) :
                 accounts[i].totp[k] \in Range(UpperLetters) \cup Range(Digits)

(***************************************************************************)
(* Properties of the one-time password generator.                          *)
(***************************************************************************)
\* C13: once a call of generate for a secret has resolved to a code in a
\* window, every later call for that secret that begins in the same window
\* returns the cached code and does not ask for a digest, whatever other
\* secrets were generated in between.
C13_CacheHit ==
    returned.call.seen =>
        /\ ~returned.hmac
        /\ returned.result =
              codeOf(returned.call.secret, returned.call.currentWindow)

\* A call has returned a code in the last step.
ReturnedCode == returned.result.text = "digits"

\* C14: generate returns a cached code only when the window of the entry
\* is the window that was current when the call began; otherwise it
\* computes the code of that window and overwrites the entry.  So every
\* entry of the cache holds the code of its secret for its window, and a
\* call returns the code of the window in which it began, also when calls
\* of different windows resolve out of order.
C14_WindowCorrectness ==
    /\ \A secret \in DOMAIN cache :
          cache[secret].code = codeOf(secret, cache[secret].timeWindow)
    /\ ReturnedCode =>
          /\ returned.result =
                codeOf(returned.call.secret, returned.call.currentWindow)
          /\ ~returned.hmac =>
                /\ returned.call.secret \in DOMAIN returned.before
                /\ returned.before[returned.call.secret].timeWindow =
                      returned.call.currentWindow
          /\ (returned.hmac /\ ~returned.cleaned) =>
                cache[returned.call.secret] =
                   [code |-> returned.result,
                    timeWindow |-> returned.call.currentWindow]

\* A call that began in an earlier window resolves after a call of the
\* same secret that began later, and overwrites its entry.
C14_Witness ==
    /\ ReturnedCode
    /\ returned.hmac
    /\ returned.call.currentWindow < clock
    /\ returned.call.secret \in DOMAIN returned.before
    /\ returned.before[returned.call.secret].timeWindow = clock

\* The cache of the last step right after cache.set, before the cleanup.
Inserted ==
    mapSet(returned.before, returned.call.secret,
           [code |-> returned.result,
            timeWindow |-> returned.call.currentWindow])

\* The entries of Inserted that belong to the window of the clock.
CurrentEntries ==
    [secret \in {x \in DOMAIN Inserted : Inserted[x].timeWindow = clock} |->
        Inserted[secret]]

\* C15: once a call of generate has returned, the cache holds at most N
\* entries: on overflow every entry of a window other than the current one
\* is purged first, and the cache is cleared entirely only if it is still
\* over N.
C15_BoundedCache ==
    /\ size(cache) <= MAX_CACHE_SIZE
    /\ returned.cleaned =>
          /\ size(Inserted) > MAX_CACHE_SIZE
          /\ IF size(CurrentEntries) <= MAX_CACHE_SIZE
             THEN cache = CurrentEntries
             ELSE cache = <<>>
    /\ (returned.hmac /\ ~returned.cleaned) => cache = Inserted

\* An overflow that the purge of the other windows' entries settles:
\* entries of the current window stay.
C15_Witness ==
    /\ returned.cleaned
    /\ cache # <<>>
    /\ size(cache) < size(Inserted)

\* The characters of the secret that are not in the Base32 alphabet, in
\* either case.
Foreign(secret) ==
    {i \in 1..Len(secret) : toUpperChar(secret[i]) \notin Range(Base32Alphabet)}

\* A call has returned in the last step.
Returned == returned.result.text # "none"

\* The last step returned the sentinel and left the cache as it was.
Unavailable ==
    /\ returned.result = ErrorResult
    /\ ~returned.hmac
    /\ cache = returned.before

EntryOf(secret) == [code |-> codeOf(secret, clock), timeWindow |-> clock]

C18_SaveFailure ==
    (saved.called /\ ~saved.written) =>
        /\ saved.event # "dataSaved"
        /\ saved.after = saved.before

(***************************************************************************)
(* Properties of the file parser.                                          *)
(***************************************************************************)
\* The lines of the parsed file, trimmed as parse reads them.
InputLines ==
    LET lines == split(parserInput.content, <<"\n">>)
    IN  [i \in 1..Len(lines) |-> trim(lines[i])]

\* The numbers of the lines that are neither blank nor comments.
DataLines ==
    {i \in 1..Len(InputLines) :
        InputLines[i] # <<>> /\ InputLines[i][1] # "#"}

ErrorLines == {parserOutput.errors[k].line : k \in 1..Len(parserOutput.errors)}

\* The fields of the line i.
Fields(i) == split(InputLines[i], parserInput.delimiter)

\* The number of data lines up to the line i that are not in error.
AccountsUpTo(i) == Cardinality({j \in DataLines \ ErrorLines : j <= i})

\* C19: every line of the file that is not blank and is not a comment
\* (after trimming) yields exactly one account or one error with its line
\* number counted from 1; the accounts and the errors together are as many
\* as these lines, and a line in error does not keep the later lines from
\* being parsed.
C19_RecordBoundary ==
    parserInput.fn = "parse" =>
        LET accs   == parserOutput.accounts
            errors == parserOutput.errors
        IN  /\ Len(accs) + Len(errors) = Cardinality(DataLines)
            /\ ErrorLines \subseteq DataLines
            /\ \A k \in 1..Len(errors) :
                  /\ errors[k].content = InputLines[errors[k].line]
                  /\ \A j \in 1..(k - 1) : errors[j].line < errors[k].line
                  /\ errors[k].error \in {NotEnoughFields, InvalidTOTP, InvalidEmail}
                  /\ errors[k].error = NotEnoughFields =>
                        Len(Fields(errors[k].line)) < 2
                  /\ errors[k].error = InvalidTOTP =>
                        /\ parserInput.hasTOTP
                        /\ Len(Fields(errors[k].line)) >= 3
                        /\ ~validateTOTP(trim(Fields(errors[k].line)[3]))
                  /\ errors[k].error = InvalidEmail =>
                        ~validateEmail(trim(Fields(errors[k].line)[1]))
            /\ \A i \in DataLines \ ErrorLines :
                  /\ Len(Fields(i)) >= 2
                  /\ accs[AccountsUpTo(i)].email = trim(Fields(i)[1])
                  /\ accs[AccountsUpTo(i)].password = trim(Fields(i)[2])
                  /\ validateEmail(accs[AccountsUpTo(i)].email)

\* A line in error is followed by a line that yields an account.
C19_Witness ==
    /\ parserInput.fn = "parse"
    /\ \E i \in ErrorLines : \E j \in DataLines \ ErrorLines : i < j

\* The lines of the file given to detectDelimiter.
PreviewedLines == split(parserInput.content, <<"\n">>)

\* A line that parse reads as a record: not blank and not a comment.
RecordLine(line) == trim(line) # <<>> /\ trim(line)[1] # "#"

\* The first three record lines.
Scored ==
    {i \in 1..Len(PreviewedLines) :
        /\ RecordLine(PreviewedLines[i])
        /\ Cardinality({j \in 1..(i - 1) : RecordLine(PreviewedLines[j])}) < 3}

\* The number of scored lines that the candidate k splits into at least
\* three parts.
Score(k) ==
    Cardinality({i \in Scored : Len(split(PreviewedLines[i], delimiters[k])) >= 3})

\* C20: detectDelimiter scores each candidate of its list by the number of
\* the first 3 non-blank, non-comment lines that split into at least 3
\* parts, returns the candidate with the highest score, the earlier one of
\* the list on a tie, and null when every score is 0.
C20_DetectDelimiter ==
    parserInput.fn = "detectDelimiter" =>
        IF \A k \in 1..Len(delimiters) : Score(k) = 0
        THEN parserOutput = nullDelimiter
        ELSE \E k \in 1..Len(delimiters) :
                /\ parserOutput = delimiters[k]
                /\ \A j \in 1..Len(delimiters) : Score(j) <= Score(k)
                /\ \A j \in 1..(k - 1) : Score(j) < Score(k)

(***************************************************************************)
(* Properties of the import of a backup.                                   *)
(***************************************************************************)
\* The tags of the backup of the last call, and the tags it found.
Imported == op.json.tags

SameName(name1, name2) == toLowerCase(name1) = toLowerCase(name2)

\* The tags the call found in the store with the name of imported tag k.
Matching(k) ==
    {i \in 1..Len(op.preTags) : SameName(op.preTags[i].name, Imported[k].name)}

\* The imported tags before k with the name of imported tag k.
Earlier(k) == {j \in 1..(k - 1) : SameName(Imported[j].name, Imported[k].name)}

\* The tag ids of an imported account, taken through the mapping.
Remapped(tagIds) ==
    LET known == SelectSeq(tagIds, LAMBDA t : t \in DOMAIN op.mapping)
    IN  [i \in 1..Len(known) |-> op.mapping[known[i]]]

\* C21: after the import of a JSON backup, an imported tag whose name is,
\* but for case, the name of a tag of the store is mapped to that tag's id
\* and no tag of the store has changed; any other imported tag has a new
\* tag with the imported name and colour; the accounts were given to
\* importAccounts with their tag ids taken through this mapping; and no
\* account refers to a tag id that the store does not hold.
C21_BackupTags ==
    op.json # noBackup =>
        /\ \A i \in 1..Len(op.preTags) :
                i <= Len(tags) /\ tags[i] = op.preTags[i]
        /\ \A k \in 1..Len(Imported) :
                /\ Imported[k].id \in DOMAIN op.mapping
                /\ Matching(k) # {} =>
                        \E i \in Matching(k) :
                            op.mapping[Imported[k].id] = op.preTags[i].id
                /\ Matching(k) = {} /\ Earlier(k) # {} =>
                        \E j \in Earlier(k) :
                            op.mapping[Imported[k].id] = op.mapping[Imported[j].id]
                /\ Matching(k) = {} /\ Earlier(k) = {} =>
                        \E i \in (Len(op.preTags) + 1)..Len(tags) :
                            /\ tags[i].id = op.mapping[Imported[k].id]
                            /\ tags[i].id \notin TagIdsOf(op.preTags)
                            /\ tags[i].name = Imported[k].name
                            /\ tags[i].color = Imported[k].color
        /\ \A k \in 1..Len(op.batch) :
                op.batch[k].tags = Remapped(op.json.accounts[k].tags)
        /\ ReferencedTagIds(accounts) \subseteq TagIdsOf(tags)

(***************************************************************************)
(* The frame of reorderAccounts.                                           *)
(***************************************************************************)
\* The order the claim gives to account b of the store the call found,
\* when the moved account had the order oldOrder.
FrameOrder(b, oldOrder) ==
    IF b.id = op.id THEN op.newOrder
    ELSE IF oldOrder < op.newOrder /\ oldOrder < b.order /\ b.order <= op.newOrder
    THEN b.order - 1
    ELSE IF op.newOrder < oldOrder /\ op.newOrder <= b.order /\ b.order < oldOrder
    THEN b.order + 1
    ELSE b.order

\* C22: reorderAccounts with an unknown id returns false and changes no
\* account; with a known id it decrements exactly the other accounts whose
\* order is above the old and at most the new order when moving later,
\* increments exactly the other accounts whose order is at least the new
\* and below the old order when moving earlier, changes no order when the
\* two are equal, and leaves every other field of every account as it was.
C22_ReorderFrame ==
    op.name = "reorderAccounts" =>
        /\ op.ret = (op.id \in UsedIds(pre))
        /\ ~op.ret => accounts = pre
        /\ op.ret =>
            /\ Len(accounts) = Len(pre)
            /\ \A i \in 1..Len(pre) :
                /\ [accounts[i] EXCEPT !.order = pre[i].order] = pre[i]
                /\ accounts[i].order =
                        FrameOrder(pre[i], accountOf(pre, op.id).order)
            /\ op.newOrder = accountOf(pre, op.id).order => accounts = pre

\* An account was moved earlier over two others, which were incremented,
\* while a third kept its order.
C22_Witness ==
    /\ op.name = "reorderAccounts"
    /\ op.ret
    /\ op.newOrder + 2 <= accountOf(pre, op.id).order
    /\ \E i, j \in 1..Len(pre) :
            /\ accounts[i].order = pre[i].order + 1
            /\ pre[j].id # op.id
            /\ accounts[j].order = pre[j].order

(***************************************************************************)
(* The refresh of the codes.                                               *)
(***************************************************************************)
WindowMs == WindowSeconds * 1000

Memory == data(accounts, tags, settings)

\* The data that DataStore.load() reads from the storage.
Persisted == IF storage = null THEN data(<<>>, <<>>, defaultSettings) ELSE storage

\* No save is pending although the storage differs from the memory.
Unsaved == timeout = 0 /\ Memory # Persisted

\* The save has run and, if its write succeeded, the storage holds the
\* data in memory.
Synced ==
    /\ timeout = 0
    /\ saved.called
    /\ saved.written => storage = Memory

\* C24: at most one save is pending however many mutations asked for one;
\* the storage differs from the memory without a save pending only after a
\* write that failed; and whenever a save is pending, the save runs in the
\* end and, if its write succeeds, leaves the storage equal to the
\* accounts, tags and settings in memory.
C24_DebouncedSave ==
    /\ [](timeout <= 1)
    /\ [](Unsaved => (saved.called /\ ~saved.written))
    /\ ((timeout > 0) ~> Synced)

\* One write has saved what several mutations asked to save.
C24_Witness ==
    /\ Synced
    /\ saved.written
    /\ saved.requests >= 2
    /\ saved.after.accounts # <<>>
    /\ saved.after.tags # <<>>

(***************************************************************************)
(* Drag and drop.                                                          *)
(***************************************************************************)
\* The ids of the accounts in display order, and the place of an id.
Display(accs) ==
    LET sorted == getAccountsSorted(accs)
    IN  [i \in 1..Len(sorted) |-> sorted[i].id]

Place(ids, id) == CHOOSE i \in 1..Len(ids) : ids[i] = id

Without(ids, id) == SelectSeq(ids, LAMBDA x : x # id)

\* C25: after a card was dropped on the card of another account, the
\* dropped account is immediately before that account in display order
\* if it was dropped on the upper half and immediately after it if it was
\* dropped on the lower half, and the other accounts are in the order
\* they were in.
C25_DropPlacement ==
    op.target # 0 =>
        /\ Place(Display(accounts), op.id) =
                IF op.below THEN Place(Display(accounts), op.target) + 1
                ELSE Place(Display(accounts), op.target) - 1
        /\ Without(Display(accounts), op.id) = Without(Display(pre), op.id)

(***************************************************************************)
(* Validated secrets.                                                      *)
(***************************************************************************)
\* C26: a call of generate for the secret of an account that came through
\* the account form or the text import, whose secret validateTOTP has
\* accepted, returns a code and never the sentinel of an unavailable code.
C26_ValidatedSecretsDecode ==
    (/\ Returned
     /\ \E i \in 1..Len(accounts) : accounts[i].totp = returned.call.secret
     /\ validateTOTP(returned.call.secret))
    => returned.result # ErrorResult

(***************************************************************************)
(* The restore of a backup.                                                *)
(***************************************************************************)
\* C27: after the import of an exported backup into an empty store, the
\* store has as many accounts as the backup, each with the email, the
\* password, the secret and the extras of the exported account.
C27_RestoreBackup ==
    (op.json # noBackup /\ op.json = backup /\ pre = <<>>) =>
        /\ Len(accounts) = Len(backup.accounts)
        /\ \A k \in 1..Len(backup.accounts) :
            /\ accounts[k].email = backup.accounts[k].email
            /\ accounts[k].password = backup.accounts[k].password
            /\ accounts[k].totp = backup.accounts[k].totp
            /\ accounts[k].extras = backup.accounts[k].extras

\* The account form is confirmed with an address that is no email, or the
\* export is asked for, while the timeouts of the notification run.
NextNotification ==
    \/ uiNow <= MaxUiNow /\ accountModalConfirm(NoAccount, a, p, <<>>, <<>>)
    \/ uiNow <= MaxUiNow /\ exportJSON
    \/ \E t \in uiTimers : notificationShow(t)
    \/ \E t \in uiTimers : hideTimerFires(t)
    \/ \E t \in uiTimers : notificationRemove(t)
    \/ elapse

SpecNotification == Init /\ [][NextNotification]_vars

\* A store of one account and up to MaxTags tags; the tag button of the
\* card is clicked, tags are toggled in the dropdown and clicks fall
\* outside of it, while the timeouts of the page run.
NextSelector ==
    \/ \E d \in StoreCandidates : Len(accounts) < MaxSaved /\ addAccount(d)
    \/ \E n \in TagNames, c \in TagColors : uiTimers = {} /\ createTag(n, c)
    \/ \E id \in UsedIds(accounts) : uiNow <= MaxSelectorNow /\ quickTag(id)
    \/ \E t \in TagIds :
            /\ uiNow <= MaxSelectorNow
            /\ Cardinality(uiTimers) <= MaxTimers
            /\ toggleTag(t)
    \/ /\ uiNow <= MaxSelectorNow
       /\ Cardinality(uiTimers) <= MaxTimers
       /\ outsideClick
    \/ \E t \in uiTimers : dropdownShow(t)
    \/ \E t \in uiTimers : listen(t)
    \/ \E t \in uiTimers : dropdownRemove(t)
    \/ \E t \in uiTimers : notificationShow(t)
    \/ \E t \in uiTimers : hideTimerFires(t)
    \/ \E t \in uiTimers : notificationRemove(t)
    \/ elapse

SpecSelector == Init /\ [][NextSelector]_vars

(***************************************************************************)
(* Properties of the import as a whole.                                    *)
(***************************************************************************)
\* The account of the store that has the id of the account b.
Kept(b) == {k \in 1..Len(accounts) : accounts[k].id = b.id}

\* C28: after importAccounts on a batch of n candidates the returned
\* counters add up to n, the store has exactly `added` more accounts than
\* before, every account of the store before the call is still there once,
\* with its id, email and password, and with every extra it had.
C28_ImportAccounting ==
    op.name = "importAccounts" =>
        /\ op.stats.added + op.stats.updated + op.stats.skipped = Len(op.batch)
        /\ Len(accounts) = Len(pre) + op.stats.added
        /\ \A i \in 1..Len(pre) :
            /\ Cardinality(Kept(pre[i])) = 1
            /\ \A k \in Kept(pre[i]) :
                /\ accounts[k].email = pre[i].email
                /\ accounts[k].password = pre[i].password
                /\ Range(pre[i].extras) \subseteq Range(accounts[k].extras)

\* An import into a store with an account that has an extra, which adds one
\* candidate and merges another extra into the existing account.
C28_Witness ==
    /\ op.name = "importAccounts"
    /\ Len(op.batch) = 2
    /\ op.stats.added = 1
    /\ op.stats.updated = 1
    /\ \E i \in 1..Len(pre) :
        /\ pre[i].extras # <<>>
        /\ \E k \in Kept(pre[i]) : Len(accounts[k].extras) > Len(pre[i].extras)

(***************************************************************************)
(* Properties of the notification and of the dropdown of the tags.         *)
(***************************************************************************)
\* C29: from a call of show(message, duration) until its duration has
\* passed, the notification is in the page with the message of the last
\* call of show.
C29_ShownForDuration ==
    (displayed.called /\ uiNow < displayed.at + displayed.duration) =>
        /\ notification.current
        /\ notification.textContent = displayed.message

\* The tags the store has on the account of the selector.
TagsOfSelector ==
    LET account == findIndex(accounts, toggled.accountId)
    IN  IF account = 0 THEN {}
        ELSE Range(accounts[account].tags) \cap TagIdsOf(tags)

\* C30: when toggleTag was the last use of the selector and the timeouts of
\* the dropdown have run, the dropdown is in the page, shown, and marks the
\* tags the account has.
C30_DropdownShownAgain ==
    (toggled.called /\ SelectorTimers = {}) =>
        /\ dropdown.element
        /\ dropdown.show
        /\ dropdown.active = TagsOfSelector

====
